---- MODULE Spec2Model ----
(***************************************************************************)
(* State-machine model of the buyer front-end of AndroidBuyer:             *)
(*   - Home (src/unnamed/part_000, lines 42-1392): the space collection,   *)
(*     its filtered mirror, the selected space, the realtime reconciler,   *)
(*     the parking-data fetches, the time filter and the debounced search; *)
(*   - ParkingDetails (src/unnamed/part_000, lines 1424-1593): the detail  *)
(*     screen's own copy of one space.                                     *)
(*                                                                         *)
(* JavaScript objects are TLA+ functions from field names to values; an    *)
(* absent field is a name outside the DOMAIN.  Values whose JavaScript     *)
(* type the code inspects (availableSpots, available) are tagged pairs     *)
(* <<type, value>>.  Identifiers are strings, as the JSON transport        *)
(* delivers them.  Prices are kept in hundredths of a currency unit.       *)
(***************************************************************************)
EXTENDS Integers, Sequences, FiniteSets, TLC

VARIABLES
  parkingSpaces,      \* Home: useState<ParkingSpace[]>([])            (l.47)
  filteredSpaces,     \* Home: useState<ParkingSpace[]>([])            (l.48)
  selectedSpace,      \* Home: <<>> for null, <<s>> for a space        (l.49)
  currentLocation,    \* Home: <<>> for null, <<loc>> once known       (l.50)
  loading,            \* Home: useState(true)                          (l.52)
  searchQuery,        \* Home: text of the search box                  (l.63)
  searchResults,      \* Home: geocoding results                       (l.65)
  showSearchResults,  \* Home: dropdown flag                           (l.66)
  startTime,          \* Home: time filter, see NullTime/EmptyTime     (l.69)
  endTime,            \* Home: time filter                             (l.70)
  filters,            \* Home: amenity / price filter state            (l.73)
  fetch,              \* the parking-data request in flight, if any
  debouncers,         \* number of debounce instances created so far   (l.611)
  timers,             \* pending setTimeout callbacks of the debounce instances
  geoRequests,        \* indices of the geocode requests not yet answered
  geocodeCalls,       \* requests handed to the geocoder, in dispatch order
  keystrokes,         \* history: the search box's onChange events
  clock,              \* milliseconds since mount
  toasts,             \* the notification the last handler showed, "" if none
  space,              \* ParkingDetails: <<>> for undefined, <<s>>     (l.1433)
  now,                \* the wall clock read by new Date(), in slots
  routeRequests,      \* Home: fetchRoute calls not yet answered
  routeData,          \* Home: "none" for null, else the route drawn    (l.53)
  sheets,             \* Home: the list and the filter bottom sheet (l.652-763)
  mounted,            \* Home is mounted
  popupTimeout,       \* Home: 0 for null, else a timer id            (l.54)
  isPopupHovered,     \* Home                                          (l.55)
  popupTimers,        \* ids of the popup-close timers still pending
  splash,             \* Splash: its state and its two timers
  overlay,            \* SearchOverlay: its props, state and requests
  h                   \* history: the handler that ran last and its argument

vars == << parkingSpaces, filteredSpaces, selectedSpace, currentLocation,
           loading, searchQuery, searchResults, showSearchResults,
           startTime, endTime, filters, fetch, debouncers, timers,
           geoRequests, geocodeCalls, keystrokes, clock, toasts, space, now,
           routeRequests, routeData, sheets, mounted, popupTimeout,
           isPopupHovered, popupTimers, splash, overlay, h >>

homeVars   == << parkingSpaces, filteredSpaces, selectedSpace >>
searchVars == << searchQuery, searchResults, showSearchResults, debouncers,
                 timers, geoRequests, geocodeCalls, keystrokes, clock >>
timeVars   == << startTime, endTime >>
routeVars  == << routeRequests, routeData >>
popupVars  == << popupTimeout, isPopupHovered, popupTimers >>
viewVars   == << sheets, mounted, splash >>
auxVars    == << routeVars, popupVars, viewVars, overlay >>

-----------------------------------------------------------------------------
(* JavaScript values                                                       *)

Num(n) == <<"number", n>>
Str(s) == <<"string", s>>
Undefined == <<"undefined", 0>>
Null == <<"null", 0>>
\* The three numbers that are not finite; the second component is the sign.
NaN == <<"NaN", 0>>
Infinity == <<"Infinity", 1>>
NegInfinity == <<"Infinity", -1>>

TypeOf(v) == IF v[1] \in { "NaN", "Infinity" } THEN "number" ELSE v[1]
IsNumber(v) == TypeOf(v) = "number"

\* JavaScript truthiness of a tagged value.
Truthy(v) ==
  CASE TypeOf(v) = "number" -> v[2] # 0
    [] TypeOf(v) = "string" -> v[2] # ""
    [] OTHER -> FALSE

\* Number(v) > 0 for a tagged value: numeric strings convert, anything else
\* is NaN and compares false.
NumericStrings ==
  { <<"0", 0>>, <<"1", 1>>, <<"2", 2>>, <<"3", 3>>, <<"25", 25>>,
    <<"80", 80>>, <<"-80", -80>> }
NumberGtZero(v) ==
  CASE TypeOf(v) = "number" -> v[2] > 0
    [] TypeOf(v) = "string" -> \E p \in NumericStrings : p[1] = v[2] /\ p[2] > 0
    [] OTHER -> FALSE

\* Number(v) for a tagged value.
Number(v) ==
  CASE v[1] \in { "number", "NaN", "Infinity" } -> v
    [] v[1] = "string" ->
         IF v[2] = "" THEN Num(0)
         ELSE IF \E p \in NumericStrings : p[1] = v[2]
              THEN Num((CHOOSE p \in NumericStrings : p[1] = v[2])[2])
              ELSE NaN
    [] v[1] = "null" -> Num(0)
    [] OTHER -> NaN

\* Number.isFinite(v)
IsFinite(v) == v[1] = "number"

Has(o, f) == f \in DOMAIN o
\* o.f for a tagged field: Undefined when the field is absent.
Get(o, f) == IF Has(o, f) THEN o[f] ELSE Undefined

EmptyObject == [f \in {} |-> TRUE]
\* { ...a, ...b }
Spread(a, b) ==
  [f \in (DOMAIN a) \cup (DOMAIN b) |-> IF f \in DOMAIN b THEN b[f] ELSE a[f]]

\* String.prototype.toLowerCase on the status values in use.
ToLowerCase(s) ==
  CASE s = "Submitted" -> "submitted"
    [] s = "SUBMITTED" -> "submitted"
    [] s = "Rejected"  -> "rejected"
    [] OTHER -> s

\* [...prev] with the element at index i spliced out.
Splice(prev, i) ==
  [k \in 1..(Len(prev) - 1) |-> IF k < i THEN prev[k] ELSE prev[k + 1]]

-----------------------------------------------------------------------------
(* Time filter values: a datetime-local string is a slot number > 0 in     *)
(* units of ten minutes; null and '' are the two falsy values.             *)

NullTime  == -1
EmptyTime == 0
\* startTime && endTime
TimeWindowActive(st, et) == st > 0 /\ et > 0

-----------------------------------------------------------------------------
(* Pure helpers of Home                                                    *)

Max(a, b) == IF a > b THEN a ELSE b
Min(a, b) == IF a < b THEN a ELSE b

\* a ?? b
Coalesce(a, b) == IF a[1] \in { "undefined", "null" } THEN b ELSE a

\* computePriceMeta (l.150-163), for price fields that convert to a finite
\* number or to NaN.  Finite prices are whole currency units
\* and finite discounts whole percentages, so base * (1 - clamped / 100)
\* has at most two decimals and toFixed(2) is exact: basePrice and
\* discountedPrice are in hundredths.
computePriceMeta(s) ==
  LET baseRaw == Coalesce(Get(s, "priceParking"),
                   Coalesce(Get(s, "pricePerHour"),
                     Coalesce(Get(s, "price"), Num(0))))
      base == IF Truthy(Number(baseRaw)) THEN Number(baseRaw)[2] ELSE 0
      discount == Number(Coalesce(Get(s, "discount"), Num(0)))
      clamped == IF IsFinite(discount)
                 THEN Max(0, Min(100, discount[2])) ELSE 0
      discounted == base * (100 - clamped)
  IN [ basePrice       |-> base * 100,
       discountedPrice |-> discounted,
       discountPercent |-> clamped,
       hasDiscount     |-> (clamped > 0 /\ discounted < base * 100) ]

\* s => ({ ...s, __price: s.__price ?? computePriceMeta(s) })
WithPrice(s) ==
  Spread(s, [__price |-> IF Has(s, "__price") THEN s.__price
                         ELSE computePriceMeta(s)])

MapWithPrice(spaces) == [i \in 1..Len(spaces) |-> WithPrice(spaces[i])]

\* A value that is not an array (null, undefined, an object), written as a
\* one-element tuple around a marker so that no array of records equals it.
NotArray(what) == << [ notArray |-> what ] >>
NonArrays == { NotArray("null"), NotArray("undefined"), NotArray("object") }

\* Array.isArray(v)
IsArray(v) == v \notin NonArrays

\* The predicate of the filter with an absent isOnline taken as online.
IsApprovedAbsentOnline(s) ==
  LET status == ToLowerCase(IF Has(s, "status") THEN s.status ELSE "")
      online == IF Has(s, "isOnline") THEN s.isOnline ELSE TRUE
  IN status = "submitted" /\ online

\* The predicate of onlyApproved's filter (l.169-171).
IsApproved(s) ==
  LET status == ToLowerCase(IF Has(s, "status") THEN s.status ELSE "")
      online == IF Has(s, "isOnline") THEN s.isOnline ELSE FALSE
  IN status = "submitted" /\ online

\* onlyApproved (l.166-173).
onlyApproved(spaces) ==
  IF ~IsArray(spaces) THEN <<>> ELSE SelectSeq(spaces, IsApproved)

\* s => Number(s.availableSpots) > 0
HasSpots(s) == NumberGtZero(Get(s, "availableSpots"))

\* Allowed with the time-window filter left out.
AllowedWithoutSpotFilter(spaces, st, et) == onlyApproved(MapWithPrice(spaces))

\* The pipeline every fetch handler applies to the records it received,
\* under the time window it was called with (l.408-411, 422-425, 636-638,
\* 1088-1090).
Allowed(spaces, st, et) ==
  LET approved == onlyApproved(MapWithPrice(spaces))
  IN IF TimeWindowActive(st, et) THEN SelectSeq(approved, HasSpots)
     ELSE approved

\* The pipeline of loadDefaultParkingMarkers (l.408-411, 422-425): the
\* filter first, then the price annotation.
AllowedDefault(spaces, st, et) ==
  LET allowed == MapWithPrice(onlyApproved(spaces))
  IN IF TimeWindowActive(st, et) THEN SelectSeq(allowed, HasSpots)
     ELSE allowed

-----------------------------------------------------------------------------
(* RealtimeReconciler: Home's handleParkingUpdate (l.184-288)              *)

\* data.parkingId || data._id || data.id  (l.186)
ParkingIdOf(data) ==
  IF Has(data, "parkingId") /\ data.parkingId # "" THEN Str(data.parkingId)
  ELSE IF Has(data, "_id") /\ data._id # "" THEN Str(data._id)
  ELSE IF Has(data, "id") THEN Str(data.id)
  ELSE Undefined

\* String(parkingId)
StringOf(v) == IF TypeOf(v) = "undefined" THEN "undefined" ELSE v[2]

\* typeof data.availableSpots === 'number' ? data.availableSpots
\*   : data.available || data.availableSpots   (l.187-188)
AvailableSpotsOf(data) ==
  IF IsNumber(Get(data, "availableSpots")) THEN Get(data, "availableSpots")
  ELSE IF Truthy(Get(data, "available")) THEN Get(data, "available")
  ELSE Get(data, "availableSpots")

\* s._id ? (typeof s._id === 'string' ? s._id : String(s._id)) : s.id
SidOf(s) ==
  IF Has(s, "_id") /\ s._id # "" THEN Str(s._id)
  ELSE IF Has(s, "id") THEN Str(s.id)
  ELSE Undefined

\* prev.findIndex(s => sid === pid), 1-based; 0 stands for -1.
FindIndex(prev, pid) ==
  IF \E i \in 1..Len(prev) : SidOf(prev[i]) = Str(pid)
  THEN CHOOSE i \in 1..Len(prev) :
         /\ SidOf(prev[i]) = Str(pid)
         /\ \A j \in 1..(i - 1) : SidOf(prev[j]) # Str(pid)
  ELSE 0

\* (incomingStatus && incomingStatus !== 'submitted') || incomingOnline === false
IncomingRemoves(data) ==
  LET incomingStatus == ToLowerCase(IF Has(data, "status") THEN data.status ELSE "")
      incomingOnline == IF Has(data, "isOnline") THEN data.isOnline ELSE TRUE
  IN (incomingStatus # "" /\ incomingStatus # "submitted") \/ incomingOnline = FALSE

\* WindowRemoves with the comparison written as < 0.
WindowRemovesBelowZero(data, st, et) ==
  /\ TimeWindowActive(st, et)
  /\ IsNumber(AvailableSpotsOf(data))
  /\ AvailableSpotsOf(data)[2] < 0

\* startTime && endTime && typeof availableSpots === 'number' && availableSpots <= 0
WindowRemoves(data, st, et) ==
  /\ TimeWindowActive(st, et)
  /\ IsNumber(AvailableSpotsOf(data))
  /\ AvailableSpotsOf(data)[2] <= 0

\* (data.status && String(data.status).toLowerCase() !== 'submitted')
\*   || (typeof data.isOnline !== 'undefined' && !data.isOnline)
DataRejects(data) ==
  \/ (Has(data, "status") /\ data.status # "" /\ ToLowerCase(data.status) # "submitted")
  \/ (Has(data, "isOnline") /\ ~data.isOnline)

\* ...(typeof availableSpots === 'number' ? { availableSpots } : {})
SpotsPatch(data) ==
  IF IsNumber(AvailableSpotsOf(data))
  THEN [availableSpots |-> AvailableSpotsOf(data)]
  ELSE EmptyObject

\* An updater's result: the array, and whether it is prev itself (React
\* then sees no state change) or a new array.
Same(prev) == [list |-> prev, same |-> TRUE]
New(list)  == [list |-> list, same |-> FALSE]

\* ParkingSpacesUpdater with copy.splice(idx) in place of copy.splice(idx, 1):
\* everything from idx on is dropped.
ParkingSpacesUpdaterSpliceToEnd(prev, data, st, et) ==
  LET pid == StringOf(ParkingIdOf(data))
      idx == FindIndex(prev, pid)
  IN IF IncomingRemoves(data)
     THEN IF idx > 0 THEN New(SubSeq(prev, 1, idx - 1)) ELSE Same(prev)
     ELSE IF WindowRemoves(data, st, et)
     THEN IF idx > 0 THEN New(SubSeq(prev, 1, idx - 1)) ELSE Same(prev)
     ELSE IF idx > 0
     THEN New([prev EXCEPT ![idx] = Spread(Spread(prev[idx], data), SpotsPatch(data))])
     ELSE IF DataRejects(data) THEN Same(prev)
     ELSE IF WindowRemoves(data, st, et) THEN Same(prev)
     ELSE New(<<WithPrice(data)>> \o prev)

\* ParkingSpacesUpdater with the merge written as { ...data, ...copy[idx] }:
\* the entry's own fields win over the event's.
ParkingSpacesUpdaterEntryWins(prev, data, st, et) ==
  LET pid == StringOf(ParkingIdOf(data))
      idx == FindIndex(prev, pid)
  IN IF IncomingRemoves(data)
     THEN IF idx > 0 THEN New(Splice(prev, idx)) ELSE Same(prev)
     ELSE IF WindowRemoves(data, st, et)
     THEN IF idx > 0 THEN New(Splice(prev, idx)) ELSE Same(prev)
     ELSE IF idx > 0
     THEN New([prev EXCEPT ![idx] = Spread(Spread(data, prev[idx]), SpotsPatch(data))])
     ELSE IF DataRejects(data) THEN Same(prev)
     ELSE IF WindowRemoves(data, st, et) THEN Same(prev)
     ELSE New(<<WithPrice(data)>> \o prev)

\* The updater handed to setParkingSpaces (l.190-232).
ParkingSpacesUpdater(prev, data, st, et) ==
  LET pid == StringOf(ParkingIdOf(data))
      idx == FindIndex(prev, pid)
  IN IF IncomingRemoves(data)
     THEN IF idx > 0 THEN New(Splice(prev, idx)) ELSE Same(prev)
     ELSE IF WindowRemoves(data, st, et)
     THEN IF idx > 0 THEN New(Splice(prev, idx)) ELSE Same(prev)
     ELSE IF idx > 0
     THEN New([prev EXCEPT ![idx] = Spread(Spread(prev[idx], data), SpotsPatch(data))])
     ELSE IF DataRejects(data) THEN Same(prev)
     ELSE IF WindowRemoves(data, st, et) THEN Same(prev)
     ELSE New(<<WithPrice(data)>> \o prev)

\* The updater handed to setFilteredSpaces (l.234-272).
FilteredSpacesUpdater(prev, data, st, et) ==
  LET pid == StringOf(ParkingIdOf(data))
      idx == FindIndex(prev, pid)
  IN IF IncomingRemoves(data)
     THEN IF idx > 0 THEN New(Splice(prev, idx)) ELSE Same(prev)
     ELSE IF WindowRemoves(data, st, et)
     THEN IF idx > 0 THEN New(Splice(prev, idx)) ELSE Same(prev)
     ELSE IF idx > 0
     THEN New([prev EXCEPT ![idx] = Spread(Spread(prev[idx], data), SpotsPatch(data))])
     ELSE IF DataRejects(data) THEN Same(prev)
     ELSE IF WindowRemoves(data, st, et) THEN Same(prev)
     ELSE New(<<WithPrice(data)>> \o prev)

\* The updater handed to setSelectedSpace (l.274-287); prev is <<>> for null.
SelectedSpaceUpdater(prev, data, st, et) ==
  IF prev = <<>> THEN prev
  ELSE IF SidOf(prev[1]) = Str(StringOf(ParkingIdOf(data)))
  THEN IF DataRejects(data) THEN <<>>
       ELSE IF WindowRemoves(data, st, et) THEN <<>>
       ELSE << Spread(Spread(prev[1], SpotsPatch(data)), data) >>
  ELSE prev

\* A sync effect that never copies: filteredSpaces is left to its updater.
SyncEffectSkipped(parking, filtered) == filtered.list

\* The sync effect (l.176-178) runs after a render in which parkingSpaces
\* is a new array, and then overwrites filteredSpaces with it.
SyncEffect(parking, filtered) ==
  IF parking.same THEN filtered.list ELSE parking.list

-----------------------------------------------------------------------------
(* Bounds and the inputs the environment supplies                          *)

MaxSpaces == 2        \* realtime inserts stop growing the collection here
MaxRouteRequests == 1 \* fetchRoute calls in flight at a time

\* Records the parking-data service answers with.
Ra == [ _id |-> "a", status |-> "submitted", isOnline |-> TRUE,
        availableSpots |-> Num(2), pricePerHour |-> Num(50) ]
Rb == [ _id |-> "b", status |-> "Submitted", isOnline |-> TRUE,
        availableSpots |-> Num(0), pricePerHour |-> Num(40),
        discount |-> Num(25) ]
Rp == [ _id |-> "p", status |-> "pending", isOnline |-> TRUE,
        availableSpots |-> Num(1) ]
Ro == [ _id |-> "o", status |-> "submitted", availableSpots |-> Num(1) ]

FetchResults == { <<>>, <<Ra, Rp, Rb, Ro>> }

\* What one call of the service does: it resolves with an array or throws.
Resolved(spaces) == [ok |-> TRUE, spaces |-> spaces]
Rejected == [ok |-> FALSE, spaces |-> <<>>]
FetchOutcomes == { Resolved(r) : r \in FetchResults } \cup { Rejected }

\* Payloads of 'parking-updated' / 'parking-released'.
Events ==
  { [ _id |-> "a", availableSpots |-> Num(3), pricePerHour |-> Num(60) ],
    [ _id |-> "a", availableSpots |-> Num(0), pricePerHour |-> Num(60) ],
    [ _id |-> "a", status |-> "rejected" ],
    [ _id |-> "b", isOnline |-> FALSE ],
    [ parkingId |-> "a", available |-> Num(4) ],
    [ parkingId |-> "c", availableSpots |-> Num(1) ],
    [ _id |-> "a", availableSpots |-> Str("many") ],
    [ availableSpots |-> Num(2) ] }

\* Values the two datetime-local inputs deliver in the core specification.
CoreStartTimes == { 3 }
CoreEndTimes   == { 6 }

\* Where the start-up geolocation step ends: at the device's position or at
\* the default coordinate.  The core specification starts from the former.
Locations == { "gps", "default" }
CoreLocations == { "gps" }

NoFetch == [kind |-> "none"]

\* The initial filter state (l.73-83); amenities holds the ids switched on.
NoFilters ==
  [ amenities |-> {}, priceRange |-> <<0, 1000>>, isPriceFilterActive |-> FALSE ]

\* The history records the handler that ran last and, for a realtime
\* event, its payload, the index at which the full collection held the
\* payload's identifier (0: nowhere) and whether the selection held it.
Ran(op) == [ op |-> op, data |-> EmptyObject, idx |-> 0, sel |-> FALSE ]
\* For an answered request, the history keeps the array it answered with.
Fetched(op, spaces) == [ op |-> op, data |-> spaces, idx |-> 0, sel |-> FALSE ]
RanOn(op, data) ==
  [ op |-> op, data |-> data,
    idx |-> FindIndex(parkingSpaces, StringOf(ParkingIdOf(data))),
    sel |-> (selectedSpace # <<>> /\
             SidOf(selectedSpace[1]) = Str(StringOf(ParkingIdOf(data)))) ]

-----------------------------------------------------------------------------
(* Home: the two bottom sheets, heights in pixels (l.652-763)              *)

InnerHeight == 1000                 \* window.innerHeight

MIN_HEIGHT == 120
MAX_HEIGHT == (InnerHeight * 85) \div 100
MID_HEIGHT == (InnerHeight * 50) \div 100

MIN_FILTER_HEIGHT == (InnerHeight * 45) \div 100
MAX_FILTER_HEIGHT == (InnerHeight * 95) \div 100
MID_FILTER_HEIGHT == (InnerHeight * 60) \div 100

\* e.clientY of the pointer-move events.
PointerYs == { 150, 400, 500, 700, 880 }

\* The listener effect with a registration that is never removed.
ListenerEffectWithoutCleanup(n, was, show) ==
  n + (IF show THEN 1 ELSE 0)

\* The listener effect of a sheet (l.699-710, 765-776) on window, counted
\* in sets of pointermove / pointerup / pointercancel listeners: n sets
\* are attached, the effect last ran with the flag was (FALSE before the
\* mount) and runs again with the flag show.  The cleanup of the earlier
\* run removes the functions that run registered, the new run registers
\* its render's functions when show holds.
ListenerEffect(n, was, show) ==
  (IF was THEN n - 1 ELSE n) + (IF show THEN 1 ELSE 0)

\* A sheet: show is showParkingListBottomSheet / showFiltersBottomSheet,
\* height the state sheetHeight / filterSheetHeight, el the height of the
\* element behind the ref (0 while it is not rendered), dragging, startY
\* and initial the three refs, listeners the sets of window listeners
\* its effect has attached.
Sheet(show, height) ==
  [ show |-> show, height |-> height, el |-> height, dragging |-> FALSE,
    startY |-> 0, initial |-> 0,
    listeners |-> ListenerEffect(0, FALSE, show) ]

\* After the mount effects: the list sheet is shown at MIN_HEIGHT
\* (l.59, 664-670), the filter sheet is hidden at height 0 (l.58, 731-737).
InitialSheets ==
  [ list |-> Sheet(TRUE, MIN_HEIGHT), filter |-> Sheet(FALSE, 0) ]

\* clearTimeout(id) on the popup-close timers; clearing null or an id that
\* has fired does nothing.
ClearTimeout(id) == popupTimers \ { id }

MaxSplashFinishes == 2    \* inner timers set after the splash has hidden

\* Splash after its mount effect (Splash.tsx l.11-20): the outer timer is
\* pending, no inner timer is scheduled (inner counts the pending ones),
\* onFinish has not been called (finished counts its calls).
InitialSplash ==
  [ mounted |-> TRUE, hidden |-> FALSE, timer |-> TRUE, inner |-> 0,
    finished |-> 0 ]

\* SearchOverlay after its mount with isOpen false (SearchOverlayProps.tsx
\* l.15-17, 24-29): empty query, no results in the component and none
\* passed to the parent, no request in flight.  started counts the calls
\* of searchLocation, requests holds those not yet answered.
InitialOverlay ==
  [ isOpen |-> FALSE, query |-> "", results |-> <<>>,
    parentResults |-> <<>>, loading |-> FALSE, started |-> 0,
    requests |-> {} ]

-----------------------------------------------------------------------------
(* Home: initial state and start-up                                        *)

Init ==
  /\ parkingSpaces = <<>>
  /\ filteredSpaces = <<>>
  /\ selectedSpace = <<>>
  /\ currentLocation = <<>>
  /\ loading = TRUE
  /\ searchQuery = <<>>
  /\ searchResults = <<>>
  /\ showSearchResults = FALSE
  /\ startTime = NullTime
  /\ endTime = NullTime
  /\ filters = NoFilters
  /\ fetch = [kind |-> "geolocation"]
  /\ debouncers = 1
  /\ timers = {}
  /\ geoRequests = {}
  /\ geocodeCalls = <<>>
  /\ keystrokes = <<>>
  /\ clock = 0
  /\ toasts = ""
  /\ space = <<>>
  /\ now = 2
  /\ routeRequests = 0
  /\ routeData = "none"
  /\ sheets = InitialSheets
  /\ mounted = TRUE
  /\ popupTimeout = 0
  /\ isPopupHovered = FALSE
  /\ popupTimers = {}
  /\ splash = InitialSplash
  /\ overlay = InitialOverlay
  /\ h = Ran("mount")

\* setParkingSpaces(list) from a fetch handler: always a new array, so the
\* sync effect (l.176-178) copies it into filteredSpaces.
SetParkingSpaces(list) ==
  /\ parkingSpaces' = list
  /\ filteredSpaces' = SyncEffect(New(list), Same(filteredSpaces))

\* loadDefaultParkingMarkers up to its first await (l.401-406); trigger
\* names the caller.
StartLoadDefault(trigger) ==
  /\ loading' = TRUE
  /\ fetch' = [kind |-> "loadDefault", trigger |-> trigger,
               stage |-> "getAllSpaces", st |-> startTime, et |-> endTime]

\* The init effect's geolocation step ends by setting currentLocation and
\* calling loadDefaultParkingMarkers: with the position (l.357-368), or with
\* the default coordinate (l.335-348) after the error toast (l.371-394).
\* The new currentLocation object gives useCallback a new debounce instance
\* (l.611).
GetUserLocation(loc) ==
  /\ fetch.kind = "geolocation"
  /\ currentLocation' = <<loc>>
  /\ StartLoadDefault("init")
  /\ toasts' = IF loc = "default"
               THEN "Could not get your location. Please enable location services."
               ELSE ""
  /\ debouncers' = debouncers + 1
  /\ h' = Ran("getUserLocation")
  /\ UNCHANGED << homeVars, searchQuery, searchResults, showSearchResults,
                  timers, geoRequests, geocodeCalls, keystrokes, clock,
                  timeVars, filters, space, now, auxVars >>

\* getAllSpaces answers (l.406-417): a non-empty array is shown, anything
\* else falls through to getNearbySpaces.
LoadDefaultAllSpaces(out) ==
  /\ fetch.kind = "loadDefault" /\ fetch.stage = "getAllSpaces"
  /\ IF out.ok /\ IsArray(out.spaces) /\ Len(out.spaces) > 0
     THEN /\ SetParkingSpaces(AllowedDefault(out.spaces, fetch.st, fetch.et))
          /\ loading' = FALSE
          /\ fetch' = NoFetch
          /\ h' = Fetched("fetchResolved", out.spaces)
     ELSE /\ fetch' = [fetch EXCEPT !.stage = "getNearbySpaces"]
          /\ h' = Ran("getAllSpacesFellThrough")
          /\ UNCHANGED << parkingSpaces, filteredSpaces, loading >>
  /\ toasts' = ""
  /\ UNCHANGED << selectedSpace, currentLocation, searchVars, timeVars,
                  filters, space, now, auxVars >>

\* getNearbySpaces answers (l.419-433).
LoadDefaultNearbySpaces(out) ==
  /\ fetch.kind = "loadDefault" /\ fetch.stage = "getNearbySpaces"
  /\ IF out.ok
     THEN /\ SetParkingSpaces(AllowedDefault(out.spaces, fetch.st, fetch.et))
          /\ toasts' = ""
          /\ h' = Fetched("fetchResolved", out.spaces)
     ELSE /\ SetParkingSpaces(<<>>)
          /\ toasts' = "Failed to load parking markers."
          /\ h' = Ran("fetchRejected")
  /\ loading' = FALSE
  /\ fetch' = NoFetch
  /\ UNCHANGED << selectedSpace, currentLocation, searchVars, timeVars,
                  filters, space, now, auxVars >>

\* handleGoToCurrentLocation (l.555-567).
handleGoToCurrentLocation ==
  /\ ~loading
  /\ IF currentLocation # <<>>
     THEN /\ StartLoadDefault("handleGoToCurrentLocation")
          /\ toasts' = ""
     ELSE /\ toasts' = "Current location not available."
          /\ UNCHANGED << loading, fetch >>
  /\ h' = Ran("handleGoToCurrentLocation")
  /\ UNCHANGED << homeVars, currentLocation, searchVars, timeVars, filters,
                  space, now, auxVars >>

\* handleSearchByCurrentLocation, the "Near Me" button (l.461-477, 1333).
handleSearchByCurrentLocation ==
  /\ ~loading
  /\ IF currentLocation # <<>>
     THEN /\ searchQuery' = <<>>
          /\ StartLoadDefault("handleSearchByCurrentLocation")
          /\ toasts' = "Showing parking spaces around you"
     ELSE /\ toasts' = "Current location not available."
          /\ UNCHANGED << loading, fetch, searchQuery >>
  /\ h' = Ran("handleSearchByCurrentLocation")
  /\ UNCHANGED << homeVars, currentLocation, searchResults, showSearchResults,
                  debouncers, timers, geoRequests, geocodeCalls, keystrokes,
                  clock, timeVars, filters, space, now, auxVars >>

-----------------------------------------------------------------------------
(* Home: realtime events, selection                                        *)

\* handleParkingUpdate (l.184-288) followed by the render and the sync
\* effect (l.176-178).  The handler is re-subscribed whenever startTime or
\* endTime change (l.296), so it reads their current values.
HandleParkingUpdate(data) ==
  LET parking  == ParkingSpacesUpdater(parkingSpaces, data, startTime, endTime)
      filtered == FilteredSpacesUpdater(filteredSpaces, data, startTime, endTime)
  IN /\ Len(parking.list) <= MaxSpaces
     /\ parkingSpaces' = parking.list
     /\ filteredSpaces' = SyncEffect(parking, filtered)
     /\ selectedSpace' = SelectedSpaceUpdater(selectedSpace, data, startTime, endTime)
     /\ toasts' = ""
     /\ h' = RanOn("handleParkingUpdate", data)
     /\ UNCHANGED << currentLocation, loading, searchVars, timeVars, filters,
                     fetch, space, now, auxVars >>

\* handleMarkerHover on the i-th rendered marker (l.494-497).
handleMarkerHover(i) ==
  /\ ~loading
  /\ i \in 1..Len(filteredSpaces)
  /\ selectedSpace' = << filteredSpaces[i] >>
  /\ toasts' = ""
  /\ popupTimers' = ClearTimeout(popupTimeout)
  /\ h' = Ran("handleMarkerHover")
  /\ UNCHANGED << parkingSpaces, filteredSpaces, currentLocation, loading,
                  searchVars, timeVars, filters, fetch, space, now, routeVars,
                  popupTimeout, isPopupHovered, viewVars, overlay >>

\* handleMarkerClick on the i-th rendered marker (l.479-492) up to the
\* await inside fetchRoute (l.534-547).
handleMarkerClick(i) ==
  /\ ~loading
  /\ i \in 1..Len(filteredSpaces)
  /\ routeRequests < MaxRouteRequests
  /\ selectedSpace' = << filteredSpaces[i] >>
  /\ routeRequests' = IF currentLocation # <<>> THEN routeRequests + 1
                      ELSE routeRequests
  /\ toasts' = ""
  /\ popupTimers' = ClearTimeout(popupTimeout)
  /\ h' = Ran("handleMarkerClick")
  /\ UNCHANGED << parkingSpaces, filteredSpaces, currentLocation, loading,
                  searchVars, timeVars, filters, fetch, space, now, routeData,
                  popupTimeout, isPopupHovered, viewVars, overlay >>

\* The directions service answers a fetchRoute call (l.549).
FetchRouteResolved ==
  /\ routeRequests > 0
  /\ routeRequests' = routeRequests - 1
  /\ routeData' = "route"
  /\ toasts' = ""
  /\ h' = Ran("routeResolved")
  /\ UNCHANGED << homeVars, currentLocation, loading, searchVars, timeVars,
                  filters, fetch, space, now, popupVars, viewVars,
                  overlay >>

\* A fetchRoute call fails (l.550-552): console.error only.
FetchRouteRejected ==
  /\ routeRequests > 0
  /\ routeRequests' = routeRequests - 1
  /\ toasts' = ""
  /\ h' = Ran("routeRejected")
  /\ UNCHANGED << homeVars, currentLocation, loading, searchVars, timeVars,
                  filters, fetch, space, now, routeData, popupVars,
                  viewVars, overlay >>

\* handleClosePopup (l.507-510).
handleClosePopup ==
  /\ ~loading
  /\ selectedSpace # <<>>
  /\ selectedSpace' = <<>>
  /\ toasts' = ""
  /\ popupTimers' = ClearTimeout(popupTimeout)
  /\ h' = Ran("handleClosePopup")
  /\ UNCHANGED << parkingSpaces, filteredSpaces, currentLocation, loading,
                  searchVars, timeVars, filters, fetch, space, now, routeVars,
                  popupTimeout, isPopupHovered, viewVars, overlay >>

-----------------------------------------------------------------------------
(* Home: time filter                                                       *)

\* validateTimeSelection with the clock never consulted.
validateTimeSelectionIgnoringNow(start, end) ==
  IF end <= start THEN "End time must be after start time"
  ELSE IF (end - start) * 10 < 30 THEN "Minimum booking duration is 30 minutes"
  ELSE ""

\* validateTimeSelection with the duration check ahead of the order check.
validateTimeSelectionDurationFirst(start, end) ==
  IF start < now THEN "Start time cannot be in the past"
  ELSE IF (end - start) * 10 < 30 THEN "Minimum booking duration is 30 minutes"
  ELSE IF end <= start THEN "End time must be after start time"
  ELSE ""

\* validateTimeSelection (l.118-137): the toast it shows, "" when valid.
\* One slot is ten minutes, so 30 minutes are 3 slots.
validateTimeSelection(start, end) ==
  IF start < now THEN "Start time cannot be in the past"
  ELSE IF end <= start THEN "End time must be after start time"
  ELSE IF (end - start) * 10 < 30 THEN "Minimum booking duration is 30 minutes"
  ELSE ""

\* The render evaluates the Apply button's disabled attribute (l.1107) and
\* so calls validateTimeSelection whenever both times are set: the toast
\* of that call.
RenderValidation(st, et) ==
  IF TimeWindowActive(st, et) THEN validateTimeSelection(st, et) ELSE ""

\* The clock value at the last render: every handler re-renders Home, the
\* passing of time does not.
RenderedNow == IF h.op = "clockAdvance" THEN h.idx ELSE now

\* Whether the last render left the Apply button enabled (l.1107): both
\* times set and none of the three checks failing at that moment.
ApplyEnabled ==
  /\ TimeWindowActive(startTime, endTime)
  /\ startTime >= RenderedNow
  /\ endTime > startTime
  /\ (endTime - startTime) * 10 >= 30

\* The start-time input's onChange without the reset of the end time.
StartTimeChangeKeepingEnd(t) ==
  /\ ~loading
  /\ startTime' = t
  /\ toasts' = RenderValidation(t, endTime)
  /\ h' = Ran("startTimeChange")
  /\ UNCHANGED << homeVars, currentLocation, loading, searchVars, endTime,
                  filters, fetch, space, now, auxVars >>

\* The start-time input's onChange (l.1038-1044).
StartTimeChange(t) ==
  /\ ~loading
  /\ startTime' = t
  /\ endTime' = IF endTime > 0 /\ t > 0 /\ endTime <= t THEN EmptyTime ELSE endTime
  /\ toasts' = RenderValidation(startTime', endTime')
  /\ h' = Ran("startTimeChange")
  /\ UNCHANGED << homeVars, currentLocation, loading, searchVars, filters,
                  fetch, space, now, auxVars >>

\* The end-time input's onChange (l.1068); the input is disabled while
\* startTime is falsy (l.1072).
EndTimeChange(t) ==
  /\ ~loading
  /\ startTime > 0
  /\ endTime' = t
  /\ toasts' = RenderValidation(startTime, t)
  /\ h' = Ran("endTimeChange")
  /\ UNCHANGED << homeVars, currentLocation, loading, searchVars, startTime,
                  filters, fetch, space, now, auxVars >>

\* "Apply Time Filter" onClick up to its await (l.1080-1087, 1093); the
\* button can be clicked only if the last render left it enabled (l.1107).
\* The handler validates again, against the clock of the click.
ApplyTimeFilter ==
  /\ ~loading
  /\ ApplyEnabled
  /\ IF validateTimeSelection(startTime, endTime) # ""
     THEN /\ toasts' = validateTimeSelection(startTime, endTime)
          /\ UNCHANGED << loading, fetch >>
     ELSE /\ loading' = TRUE
          /\ fetch' = [kind |-> "apply", trigger |-> "applyTimeFilter",
                       endpoint |-> IF currentLocation # <<>>
                                    THEN "getNearbySpaces" ELSE "getAllSpaces",
                       st |-> startTime, et |-> endTime]
          /\ toasts' = ""
  /\ h' = Ran("applyTimeFilter")
  /\ UNCHANGED << homeVars, currentLocation, searchVars, timeVars, filters,
                  space, now, auxVars >>

\* The answer to the request of "Apply Time Filter" (l.1088-1105).
ApplyTimeFilterResult(out) ==
  /\ fetch.kind = "apply"
  /\ IF out.ok
     THEN /\ SetParkingSpaces(Allowed(out.spaces, fetch.st, fetch.et))
          /\ toasts' = "Time filter applied successfully!"
          /\ h' = Fetched("fetchResolved", out.spaces)
     ELSE /\ toasts' = "Unable to apply time filter."
          /\ h' = Ran("fetchRejected")
          /\ UNCHANGED << parkingSpaces, filteredSpaces >>
  /\ loading' = FALSE
  /\ fetch' = NoFetch
  /\ UNCHANGED << selectedSpace, currentLocation, searchVars, timeVars,
                  filters, space, now, auxVars >>

\* "Clear" onClick up to its await (l.1115-1121, 1125).
ClearTimeFilter ==
  /\ ~loading
  /\ startTime' = NullTime
  /\ endTime' = NullTime
  /\ loading' = TRUE
  /\ fetch' = [kind |-> "clear", trigger |-> "clearTimeFilter",
               st |-> NullTime, et |-> NullTime]
  /\ toasts' = ""
  /\ h' = Ran("clearTimeFilter")
  /\ UNCHANGED << homeVars, currentLocation, searchVars, filters, space, now, auxVars >>

\* The answer to the request of "Clear" (l.1122-1133): no catch clause.
ClearTimeFilterResult(out) ==
  /\ fetch.kind = "clear"
  /\ IF out.ok
     THEN /\ SetParkingSpaces(onlyApproved(MapWithPrice(out.spaces)))
          /\ toasts' = "Time filter cleared"
          /\ h' = Ran("fetchResolved")
     ELSE /\ toasts' = ""
          /\ h' = Ran("fetchRejectedUnhandled")
          /\ UNCHANGED << parkingSpaces, filteredSpaces >>
  /\ loading' = FALSE
  /\ fetch' = NoFetch
  /\ UNCHANGED << selectedSpace, currentLocation, searchVars, timeVars,
                  filters, space, now, auxVars >>

-----------------------------------------------------------------------------
(* The core specification: start-up, refetch, realtime events, selection   *)
(* and the time filter.                                                    *)

Next ==
  \/ \E loc \in CoreLocations : GetUserLocation(loc)
  \/ \E out \in FetchOutcomes : LoadDefaultAllSpaces(out)
  \/ \E out \in FetchOutcomes : LoadDefaultNearbySpaces(out)
  \/ handleGoToCurrentLocation
  \/ handleSearchByCurrentLocation
  \/ \E data \in Events : HandleParkingUpdate(data)
  \/ \E i \in 1..MaxSpaces : handleMarkerHover(i)
  \/ handleClosePopup
  \/ \E t \in CoreStartTimes : StartTimeChange(t)
  \/ \E t \in CoreEndTimes : EndTimeChange(t)
  \/ ApplyTimeFilter
  \/ \E out \in FetchOutcomes : ApplyTimeFilterResult(out)
  \/ ClearTimeFilter
  \/ \E out \in FetchOutcomes : ClearTimeFilterResult(out)

Spec == Init /\ [][Next]_vars

-----------------------------------------------------------------------------
(* Properties of the reconciler and of the fetch handlers                  *)

\* s with its i-th element left out, the others in their order.
RemoveAt(s, i) == SubSeq(s, 1, i - 1) \o SubSeq(s, i + 1, Len(s))

HandledEvent == h.op = "handleParkingUpdate"
WindowActive == TimeWindowActive(startTime, endTime)

\* A space the buyer may see: submitted, online and, under a time window,
\* with a spot left.
Visible(s) ==
  /\ Has(s, "status") /\ ToLowerCase(s.status) = "submitted"
  /\ Has(s, "isOnline") /\ s.isOnline
  /\ (WindowActive => NumberGtZero(Get(s, "availableSpots")))

\* C1: every entry of the full collection is submitted, online and, while a
\* time window is active, has an available-spot count above zero.
C1_VisibilityInvariant ==
  \A i \in 1..Len(parkingSpaces) : Visible(parkingSpaces[i])

\* A payload with no identifier, or with a spot count that is not a number.
MissingRequiredField(data) ==
  \/ ParkingIdOf(data) = Undefined
  \/ /\ Has(data, "availableSpots")
     /\ ~IsNumber(data.availableSpots)
     /\ ~IsNumber(Get(data, "available"))

\* C2: handling a payload that misses a required field changes none of the
\* three projections of Home nor the space of the detail view.
C2_MalformedEventDropped ==
  [][ (h'.op \in {"handleParkingUpdate", "detailsParkingUpdate"}
         /\ MissingRequiredField(h'.data))
      => UNCHANGED << parkingSpaces, filteredSpaces, selectedSpace, space >> ]_vars

\* C3: in the state an event has just produced, handling the same event once
\* more changes none of the three projections.
C3_EventIdempotent ==
  HandledEvent =>
    LET parking  == ParkingSpacesUpdater(parkingSpaces, h.data, startTime, endTime)
        filtered == FilteredSpacesUpdater(filteredSpaces, h.data, startTime, endTime)
    IN /\ parking.list = parkingSpaces
       /\ SyncEffect(parking, filtered) = filteredSpaces
       /\ SelectedSpaceUpdater(selectedSpace, h.data, startTime, endTime) = selectedSpace

\* C4: a "rejected" event whose identifier is in the collection removes
\* exactly that entry from the full and the filtered collection, clears a
\* selection with that identifier and leaves any other selection alone.
C4_RejectedRemovesEntry ==
  [][ (h'.op = "handleParkingUpdate"
         /\ Has(h'.data, "status") /\ ToLowerCase(h'.data.status) = "rejected"
         /\ h'.idx > 0)
      => /\ parkingSpaces' = RemoveAt(parkingSpaces, h'.idx)
         /\ filteredSpaces' = RemoveAt(filteredSpaces, h'.idx)
         /\ selectedSpace' = IF h'.sel THEN <<>> ELSE selectedSpace ]_vars

\* A rejected event removed the selected entry and kept another one.
C4_Witness ==
  /\ HandledEvent
  /\ Has(h.data, "status") /\ h.data.status = "rejected"
  /\ h.idx > 0 /\ h.sel
  /\ selectedSpace = <<>>
  /\ Len(parkingSpaces) > 0

\* An event with no status, no isOnline and a numeric availableSpots, for
\* an identifier the collection holds.
PlainSpotUpdate(data, idx) ==
  /\ ~Has(data, "status") /\ ~Has(data, "isOnline")
  /\ Has(data, "availableSpots") /\ IsNumber(data.availableSpots)
  /\ idx > 0

\* The entry at idx is its former self with the event's fields merged over
\* it, and both collections keep their length.
MergedInPlace(data, idx) ==
  /\ Len(parkingSpaces') = Len(parkingSpaces)
  /\ Len(filteredSpaces') = Len(filteredSpaces)
  /\ \A k \in 1..Len(parkingSpaces) : k # idx => parkingSpaces'[k] = parkingSpaces[k]
  /\ LET old == parkingSpaces[idx]
         new == parkingSpaces'[idx]
     IN /\ new.availableSpots = data.availableSpots
        /\ DOMAIN new = DOMAIN old \cup DOMAIN data
        /\ \A f \in DOMAIN data : new[f] = data[f]
        /\ \A f \in DOMAIN old \ DOMAIN data : new[f] = old[f]

\* C5 as claimed: every such event updates the entry in place.
C5_PlainUpdateMerges ==
  [][ (h'.op = "handleParkingUpdate" /\ PlainSpotUpdate(h'.data, h'.idx))
      => MergedInPlace(h'.data, h'.idx) ]_vars

\* C5 as amended: such an event updates the entry in place unless a time
\* window is active and the reported count is zero or less.
C5_PlainUpdateMergesOutsideWindowRemoval ==
  [][ (h'.op = "handleParkingUpdate" /\ PlainSpotUpdate(h'.data, h'.idx)
         /\ ~(WindowActive /\ h'.data.availableSpots[2] <= 0))
      => MergedInPlace(h'.data, h'.idx) ]_vars

\* A plain update landed on the second of two entries and overwrote both
\* its count and its price.
C5_Witness ==
  /\ HandledEvent
  /\ PlainSpotUpdate(h.data, h.idx)
  /\ h.idx = 2 /\ Len(parkingSpaces) = 2 /\ Len(filteredSpaces) = 2
  /\ Get(parkingSpaces[2], "availableSpots") = Num(3)
  /\ Has(parkingSpaces[2], "pricePerHour") /\ parkingSpaces[2].pricePerHour = Num(60)
  /\ Has(parkingSpaces[2], "status") /\ parkingSpaces[2].status = "submitted"

\* C6: under an active time window an event reporting availableSpots = 0
\* for an entry of the collection removes the entry from the full and the
\* filtered collection and clears the selection if it is that entry.
C6_WindowZeroRemoves ==
  [][ (h'.op = "handleParkingUpdate" /\ WindowActive
         /\ Has(h'.data, "availableSpots") /\ h'.data.availableSpots = Num(0)
         /\ h'.idx > 0)
      => /\ parkingSpaces' = RemoveAt(parkingSpaces, h'.idx)
         /\ filteredSpaces' = RemoveAt(filteredSpaces, h'.idx)
         /\ (h'.sel => selectedSpace' = <<>>) ]_vars

\* Under an active window a zero count removed the selected entry.
C6_Witness ==
  /\ HandledEvent /\ WindowActive
  /\ Has(h.data, "availableSpots") /\ h.data.availableSpots = Num(0)
  /\ h.idx > 0 /\ h.sel
  /\ selectedSpace = <<>>

\* C8: a failed parking-data fetch shows an error notification and, unless
\* it is the start-up load, leaves the full collection as it was.
C8_FetchFailurePreserves ==
  [][ h'.op = "fetchRejected"
      => /\ toasts' # ""
         /\ (fetch.trigger # "init" => parkingSpaces' = parkingSpaces) ]_vars

-----------------------------------------------------------------------------
(* Home: amenity / price filters (l.512-527)                               *)

\* Amenity ids of the filter sheet and values of its price slider that the
\* filter specification tries.
FilterAmenities == { "covered", "cctv" }
PriceMaxima == { 500 }

\* handleFilterToggle (l.512-517).
handleFilterToggle(amenity) ==
  /\ ~loading
  /\ filters' = [filters EXCEPT !.amenities =
                   IF amenity \in @ THEN @ \ {amenity} ELSE @ \cup {amenity}]
  /\ toasts' = ""
  /\ h' = Ran("handleFilterToggle")
  /\ UNCHANGED << homeVars, currentLocation, loading, searchVars, timeVars,
                  fetch, space, now, auxVars >>

\* handlePriceRangeChange (l.518-520), called by the slider with the
\* current minimum (l.1217).
handlePriceRangeChange(min, max) ==
  /\ ~loading
  /\ filters' = [filters EXCEPT !.priceRange = <<min, max>>,
                                !.isPriceFilterActive = TRUE]
  /\ toasts' = ""
  /\ h' = Ran("handlePriceRangeChange")
  /\ UNCHANGED << homeVars, currentLocation, loading, searchVars, timeVars,
                  fetch, space, now, auxVars >>

\* clearAllFilters (l.521-527).
clearAllFilters ==
  /\ ~loading
  /\ filters' = NoFilters
  /\ toasts' = ""
  /\ h' = Ran("clearAllFilters")
  /\ UNCHANGED << homeVars, currentLocation, loading, searchVars, timeVars,
                  fetch, space, now, auxVars >>

\* The filter specification: start-up, refetch, realtime events and the
\* time inputs, with the filter sheet in use.
NextFilters ==
  \/ \E loc \in CoreLocations : GetUserLocation(loc)
  \/ \E out \in FetchOutcomes : LoadDefaultAllSpaces(out)
  \/ \E out \in FetchOutcomes : LoadDefaultNearbySpaces(out)
  \/ handleGoToCurrentLocation
  \/ \E data \in Events : HandleParkingUpdate(data)
  \/ \E t \in CoreStartTimes : StartTimeChange(t)
  \/ \E t \in CoreEndTimes : EndTimeChange(t)
  \/ \E amenity \in FilterAmenities : handleFilterToggle(amenity)
  \/ \E max \in PriceMaxima : handlePriceRangeChange(filters.priceRange[1], max)
  \/ clearAllFilters

SpecFilters == Init /\ [][NextFilters]_vars

\* C7: after every handled fetch result and realtime event, with the sync
\* effect run, filteredSpaces holds the entries of parkingSpaces in the
\* same order, whatever the amenity and price filters are set to.
C7_FilteredMirrorsFull == filteredSpaces = parkingSpaces

\* A realtime event was merged into a collection of two entries while an
\* amenity filter and the price filter were active.
C7_Witness ==
  /\ HandledEvent /\ h.idx > 0
  /\ Len(parkingSpaces) = 2 /\ filteredSpaces = parkingSpaces
  /\ filters.amenities # {} /\ filters.isPriceFilterActive
  /\ filters.priceRange = <<0, 500>>

-----------------------------------------------------------------------------
(* SearchController: debounce (l.34-40), searchLocations (l.580-610),      *)
(* debouncedSearch (l.611), handleSearchInputChange (l.613-617),           *)
(* handleLocationSelect (l.619-650) and the clear button (l.811-823)       *)

DebounceWait   == 300     \* debounce(..., 300)
MinQueryLength == 3       \* query.length < 3

MaxKeystrokes  == 2       \* onChange events per behaviour
MaxClock       == 600     \* the clock stops here
TickMs         == 100     \* granularity of the clock
MaxDebouncers  == 3       \* debounce instances per behaviour

\* Texts the user types; a text is a sequence of characters.
Queries == { <<"a", "b">>, <<"a", "b", "c">>, <<"a", "b", "c", "d">> }

\* What the geocoder answers for a query: one place, named after the query.
ResultsFor(query) ==
  << [ address |-> query \o <<",", "x">>, latitude |-> 1, longitude |-> 1 ] >>

\* Answers of the parking-data service in the search specification.
SearchFetchOutcomes == { Resolved(<<Ra, Rb>>), Rejected }

RanAt(op, i) == [ op |-> op, data |-> EmptyObject, idx |-> i, sel |-> FALSE ]

\* The init effect (l.314-333) runs once more on the mounted component, as
\* React does with mount effects under StrictMode in a development build:
\* another geolocation request is pending while the page is in use.
init ==
  /\ ~loading /\ fetch = NoFetch
  /\ debouncers < MaxDebouncers
  /\ fetch' = [kind |-> "geolocation"]
  /\ toasts' = ""
  /\ h' = Ran("init")
  /\ UNCHANGED << homeVars, currentLocation, loading, searchVars, timeVars,
                  filters, space, now, auxVars >>

\* Time passes, but not beyond the moment a pending timer is due: a due
\* timer's callback runs first.  The clock is read by setTimeout only, so
\* it is advanced only while a timer is pending.
Tick ==
  /\ clock < MaxClock
  /\ timers # {}
  /\ \A t \in timers : t.due > clock
  /\ LET target == Min(clock + TickMs, MaxClock)
         dues == { t.due : t \in timers }
     IN clock' = IF \E d \in dues : d < target
                 THEN CHOOSE d \in dues : \A e \in dues : d <= e
                 ELSE target
  /\ toasts' = ""
  /\ h' = Ran("tick")
  /\ UNCHANGED << homeVars, currentLocation, loading, searchQuery,
                  searchResults, showSearchResults, debouncers, timers,
                  geoRequests, geocodeCalls, keystrokes, timeVars, filters,
                  fetch, space, now, auxVars >>

\* handleSearchInputChange (l.613-617): the current debounce instance
\* clears its own timer and sets a new one (l.36-39).  The instance's
\* searchLocations closes over the currentLocation of its render.
handleSearchInputChange(query) ==
  /\ ~loading
  /\ query # searchQuery
  /\ Len(keystrokes) < MaxKeystrokes
  /\ searchQuery' = query
  /\ keystrokes' = Append(keystrokes, [query |-> query, at |-> clock])
  /\ timers' = { t \in timers : t.inst # debouncers } \cup
               { [ inst |-> debouncers, key |-> Len(keystrokes) + 1,
                   query |-> query, due |-> clock + DebounceWait,
                   proximity |-> currentLocation ] }
  /\ toasts' = ""
  /\ h' = Ran("handleSearchInputChange")
  /\ UNCHANGED << homeVars, currentLocation, loading, searchResults,
                  showSearchResults, debouncers, geoRequests, geocodeCalls,
                  clock, timeVars, filters, fetch, space, now, auxVars >>

\* A debounce timer fires and runs searchLocations up to its await
\* (l.580-598).
DebounceTimerFires(t) ==
  /\ t \in timers /\ t.due <= clock
  /\ timers' = timers \ {t}
  /\ IF Len(t.query) < MinQueryLength
     THEN /\ searchResults' = <<>>
          /\ showSearchResults' = FALSE
          /\ UNCHANGED << geocodeCalls, geoRequests >>
     ELSE /\ geocodeCalls' = Append(geocodeCalls,
                               [ query |-> t.query, at |-> clock, key |-> t.key,
                                 proximity |-> t.proximity ])
          /\ geoRequests' = geoRequests \cup { Len(geocodeCalls) + 1 }
          /\ UNCHANGED << searchResults, showSearchResults >>
  /\ toasts' = ""
  /\ h' = RanAt("searchLocations", t.key)
  /\ UNCHANGED << homeVars, currentLocation, loading, searchQuery, debouncers,
                  keystrokes, clock, timeVars, filters, fetch, space, now, auxVars >>

\* GeocodeResolved with a guard that drops the answer to a superseded query.
GeocodeResolvedIfCurrent(i) ==
  /\ i \in geoRequests
  /\ geoRequests' = geoRequests \ {i}
  /\ IF geocodeCalls[i].query = searchQuery
     THEN /\ searchResults' = ResultsFor(geocodeCalls[i].query)
          /\ showSearchResults' = TRUE
     ELSE UNCHANGED << searchResults, showSearchResults >>
  /\ toasts' = ""
  /\ h' = RanAt("geocodeResolved", i)
  /\ UNCHANGED << homeVars, currentLocation, loading, searchQuery, debouncers,
                  timers, geocodeCalls, keystrokes, clock, timeVars, filters,
                  fetch, space, now, auxVars >>

\* The geocoder answers request i (l.599-605).
GeocodeResolved(i) ==
  /\ i \in geoRequests
  /\ geoRequests' = geoRequests \ {i}
  /\ searchResults' = ResultsFor(geocodeCalls[i].query)
  /\ showSearchResults' = TRUE
  /\ toasts' = ""
  /\ h' = RanAt("geocodeResolved", i)
  /\ UNCHANGED << homeVars, currentLocation, loading, searchQuery, debouncers,
                  timers, geocodeCalls, keystrokes, clock, timeVars, filters,
                  fetch, space, now, auxVars >>

\* Request i fails (l.606-609).
GeocodeRejected(i) ==
  /\ i \in geoRequests
  /\ geoRequests' = geoRequests \ {i}
  /\ toasts' = "Failed to search locations"
  /\ h' = RanAt("geocodeRejected", i)
  /\ UNCHANGED << homeVars, currentLocation, loading, searchQuery,
                  searchResults, showSearchResults, debouncers, timers,
                  geocodeCalls, keystrokes, clock, timeVars, filters, fetch,
                  space, now, auxVars >>

\* The clear button of the search box (l.811-823).
ClearSearchBox ==
  /\ ~loading
  /\ searchQuery # <<>>
  /\ searchQuery' = <<>>
  /\ showSearchResults' = FALSE
  /\ IF currentLocation # <<>>
     THEN StartLoadDefault("clearSearch")
     ELSE UNCHANGED << loading, fetch >>
  /\ toasts' = ""
  /\ h' = Ran("clearSearch")
  /\ UNCHANGED << homeVars, currentLocation, searchResults, debouncers, timers,
                  geoRequests, geocodeCalls, keystrokes, clock, timeVars,
                  filters, space, now, auxVars >>

\* handleLocationSelect up to its await (l.619-635), on the i-th row of the
\* dropdown (shown while showSearchResults holds, l.827).
handleLocationSelect(i) ==
  /\ ~loading
  /\ showSearchResults /\ i \in 1..Len(searchResults)
  /\ searchQuery' = searchResults[i].address
  /\ showSearchResults' = FALSE
  /\ loading' = TRUE
  /\ fetch' = [kind |-> "select", trigger |-> "handleLocationSelect",
               st |-> startTime, et |-> endTime]
  /\ toasts' = ""
  /\ h' = Ran("handleLocationSelect")
  /\ UNCHANGED << homeVars, currentLocation, searchResults, debouncers, timers,
                  geoRequests, geocodeCalls, keystrokes, clock, timeVars,
                  filters, space, now, auxVars >>

\* The answer to handleLocationSelect's request (l.636-649).
LocationSelectResult(out) ==
  /\ fetch.kind = "select"
  /\ IF out.ok
     THEN /\ SetParkingSpaces(Allowed(out.spaces, fetch.st, fetch.et))
          /\ toasts' = IF Allowed(out.spaces, fetch.st, fetch.et) = <<>>
                       THEN "No parking spaces found in this area. Try increasing the search radius or remove time filter."
                       ELSE "Found parking spaces"
          /\ h' = Ran("fetchResolved")
     ELSE /\ toasts' = "Failed to fetch parking spaces for the selected location."
          /\ h' = Ran("fetchRejected")
          /\ UNCHANGED << parkingSpaces, filteredSpaces >>
  /\ loading' = FALSE
  /\ fetch' = NoFetch
  /\ UNCHANGED << selectedSpace, currentLocation, searchVars, timeVars,
                  filters, space, now, auxVars >>

\* The search specification: start-up, the search box, the geocoder and
\* the fetches the search box triggers.
NextSearch ==
  \/ \E loc \in CoreLocations : GetUserLocation(loc)
  \/ \E out \in SearchFetchOutcomes : LoadDefaultAllSpaces(out)
  \/ \E out \in SearchFetchOutcomes : LoadDefaultNearbySpaces(out)
  \/ init
  \/ Tick
  \/ \E query \in Queries : handleSearchInputChange(query)
  \/ \E t \in timers : DebounceTimerFires(t)
  \/ \E i \in geoRequests : GeocodeResolved(i)
  \/ \E i \in geoRequests : GeocodeRejected(i)
  \/ ClearSearchBox
  \/ \E i \in 1..1 : handleLocationSelect(i)
  \/ \E out \in SearchFetchOutcomes : LocationSelectResult(out)

SpecSearch == Init /\ [][NextSearch]_vars

\* Keystroke k is the last of its burst: none follows it within the wait.
LastOfBurst(k) ==
  k = Len(keystrokes) \/ keystrokes[k + 1].at - keystrokes[k].at >= DebounceWait

C10_ResponseInstalledUnconditionally ==
  [][ h'.op = "geocodeResolved"
      => /\ searchResults' = ResultsFor(geocodeCalls[h'.idx].query)
         /\ showSearchResults' ]_vars

\* The stale-geocode race: the second request has been answered, the
\* response to the first one has just been handled, and the dropdown shows
\* the first query's results under the second query.
C10_Witness ==
  /\ h.op = "geocodeResolved" /\ h.idx = 1
  /\ Len(geocodeCalls) >= 2 /\ 2 \notin geoRequests
  /\ geocodeCalls[1].query # geocodeCalls[2].query
  /\ searchQuery = geocodeCalls[2].query
  /\ searchResults = ResultsFor(geocodeCalls[1].query)
  /\ searchResults # ResultsFor(searchQuery)
  /\ showSearchResults

-----------------------------------------------------------------------------
(* ParkingDetails (l.1424-1467): the detail screen's copy of one space     *)

\* Spaces the route state hands to the screen.
DetailSpaces == { Ra, Rb }

\* typeof data.availableSpots === 'number' ? data.availableSpots
\*   : data.available ?? data.availableSpots   (l.1444-1447)
DetailsAvailableSpotsOf(data) ==
  IF IsNumber(Get(data, "availableSpots")) THEN Get(data, "availableSpots")
  ELSE IF Has(data, "available") THEN data.available
  ELSE Get(data, "availableSpots")

\* The screen is mounted with state.space (l.1429-1437).
InitDetails ==
  /\ parkingSpaces = <<>>
  /\ filteredSpaces = <<>>
  /\ selectedSpace = <<>>
  /\ currentLocation = <<>>
  /\ loading = FALSE
  /\ searchQuery = <<>>
  /\ searchResults = <<>>
  /\ showSearchResults = FALSE
  /\ startTime = NullTime
  /\ endTime = NullTime
  /\ filters = NoFilters
  /\ fetch = NoFetch
  /\ debouncers = 1
  /\ timers = {}
  /\ geoRequests = {}
  /\ geocodeCalls = <<>>
  /\ keystrokes = <<>>
  /\ clock = 0
  /\ toasts = ""
  /\ space \in { <<>> } \cup { <<s>> : s \in DetailSpaces }
  /\ now = 2
  /\ routeRequests = 0
  /\ routeData = "none"
  /\ sheets = InitialSheets
  /\ mounted = TRUE
  /\ popupTimeout = 0
  /\ isPopupHovered = FALSE
  /\ popupTimers = {}
  /\ splash = InitialSplash
  /\ overlay = InitialOverlay
  /\ h = Ran("mount")

\* Events the socket delivers to the detail screen: those of the map
\* screen, and events for the second space, with two identifier fields,
\* with a status or online change next to a spot count, with both spot
\* fields, and with a NaN spot count.
DetailEvents ==
  Events \cup
  { [ id |-> "b", availableSpots |-> Num(5) ],
    [ _id |-> "b", available |-> Num(1), status |-> "rejected" ],
    [ parkingId |-> "x", _id |-> "a", availableSpots |-> Num(7) ],
    [ _id |-> "a", availableSpots |-> Str("3"), available |-> Num(9) ],
    [ _id |-> "a", isOnline |-> FALSE, availableSpots |-> Num(1) ],
    [ _id |-> "b", availableSpots |-> NaN ] }

\* The handler with the whole event merged onto the space.
DetailsParkingUpdateMergingData(data) ==
  /\ space # <<>>
  /\ LET parkingId == ParkingIdOf(data)
         availableSpots == DetailsAvailableSpotsOf(data)
     IN space' =
          IF parkingId = Undefined \/ ~IsNumber(availableSpots) THEN space
          ELSE IF StringOf(parkingId) = space[1]._id
          THEN << Spread(Spread(space[1], data),
                         [availableSpots |-> availableSpots]) >>
          ELSE space
  /\ h' = [ op |-> "detailsParkingUpdate", data |-> data, idx |-> 0,
            sel |-> FALSE ]
  /\ UNCHANGED << homeVars, currentLocation, loading, searchVars, timeVars,
                  filters, fetch, toasts, now, auxVars >>

\* ParkingDetails' handleParkingUpdate (l.1442-1459); it is subscribed only
\* while space is set (l.1440).
DetailsParkingUpdate(data) ==
  /\ space # <<>>
  /\ LET parkingId == ParkingIdOf(data)
         availableSpots == DetailsAvailableSpotsOf(data)
     IN space' =
          IF parkingId = Undefined \/ ~IsNumber(availableSpots) THEN space
          ELSE IF StringOf(parkingId) = space[1]._id
          THEN << Spread(space[1], [availableSpots |-> availableSpots]) >>
          ELSE space
  /\ h' = [ op |-> "detailsParkingUpdate", data |-> data, idx |-> 0,
            sel |-> FALSE ]
  /\ UNCHANGED << homeVars, currentLocation, loading, searchVars, timeVars,
                  filters, fetch, toasts, now, auxVars >>

NextDetails == \E data \in DetailEvents : DetailsParkingUpdate(data)

SpecDetails == InitDetails /\ [][NextDetails]_vars

-----------------------------------------------------------------------------
(* TimeFilterController: the time inputs, the clock and "Apply"            *)

MaxNow == 4               \* the wall clock stops at this slot

\* Values typed into the two datetime-local inputs; the min attribute
\* (l.1035, 1065) does not keep a typed value out of onChange.
TimeStartTimes == { EmptyTime, 1, 3 }
TimeEndTimes   == { 3, 4, 6 }

\* Ten minutes pass without any handler running.
ClockAdvance ==
  /\ now < MaxNow
  /\ now' = now + 1
  /\ toasts' = ""
  /\ h' = RanAt("clockAdvance", RenderedNow)
  /\ UNCHANGED << homeVars, currentLocation, loading, searchVars, timeVars,
                  filters, fetch, space, auxVars >>

\* The time-filter specification: start-up, the two inputs, the clock,
\* "Apply" and "Clear" with their answers.
NextTime ==
  \/ \E loc \in CoreLocations : GetUserLocation(loc)
  \/ \E out \in FetchOutcomes : LoadDefaultAllSpaces(out)
  \/ \E out \in FetchOutcomes : LoadDefaultNearbySpaces(out)
  \/ \E t \in TimeStartTimes : StartTimeChange(t)
  \/ \E t \in TimeEndTimes : EndTimeChange(t)
  \/ ClockAdvance
  \/ ApplyTimeFilter
  \/ \E out \in FetchOutcomes : ApplyTimeFilterResult(out)
  \/ ClearTimeFilter
  \/ \E out \in FetchOutcomes : ClearTimeFilterResult(out)
  \/ \E i \in 1..MaxSpaces : handleMarkerClick(i)
  \/ FetchRouteResolved
  \/ FetchRouteRejected

SpecTime == Init /\ [][NextTime]_vars

PastStartMessage   == "Start time cannot be in the past"
EndOrderMessage    == "End time must be after start time"
MinDurationMessage == "Minimum booking duration is 30 minutes"

\* C11: a click on "Apply" while the start time lies in the past shows the
\* past-start error, starts no request and leaves the full collection as
\* it was; and no request of "Apply" is ever in flight for a window that
\* started before the click.
C11_PastStartNotFetched ==
  [][ (h'.op = "applyTimeFilter" /\ startTime < now)
      => /\ toasts' = PastStartMessage
         /\ fetch' = NoFetch /\ ~loading'
         /\ parkingSpaces' = parkingSpaces ]_vars

\* "Apply" was clicked on a window that was valid when rendered and whose
\* start has since passed; markers are on display and nothing was fetched.
C11_Witness ==
  /\ h.op = "applyTimeFilter"
  /\ startTime < now /\ endTime > startTime
  /\ toasts = PastStartMessage
  /\ fetch = NoFetch /\ ~loading
  /\ parkingSpaces # <<>>

\* C12: whenever a window is validated, at most one message is shown, the
\* one of the first failing check in the order past start, end not after
\* start, duration under 30 minutes (3 slots); a window (T, T + 10 min)
\* with T not in the past gets the minimum-duration message.
C12_FirstFailingCheckReported ==
  [][ (h'.op \in {"startTimeChange", "endTimeChange"}
         /\ TimeWindowActive(startTime', endTime'))
      => /\ (toasts' = PastStartMessage <=> startTime' < now)
         /\ (toasts' = EndOrderMessage
               <=> (startTime' >= now /\ endTime' <= startTime'))
         /\ (toasts' = MinDurationMessage
               <=> (startTime' >= now /\ endTime' > startTime'
                      /\ endTime' - startTime' < 3))
         /\ (toasts' = ""
               <=> (startTime' >= now /\ endTime' - startTime' >= 3)) ]_vars

\* A window of ten minutes that starts in the future was entered and got
\* the minimum-duration message.
C12_Witness ==
  /\ h.op = "endTimeChange"
  /\ startTime >= now /\ endTime = startTime + 1
  /\ toasts = MinDurationMessage

\* A fetched record that is submitted, online and has a spot left.
SubmittedOnlineWithSpots(s) ==
  /\ Has(s, "status") /\ ToLowerCase(s.status) = "submitted"
  /\ Has(s, "isOnline") /\ s.isOnline
  /\ NumberGtZero(Get(s, "availableSpots"))

\* A record without its price annotation.
WithoutPrice(s) == [f \in DOMAIN s \ {"__price"} |-> s[f]]

\* C13: when the request of "Apply" is answered, the full collection is
\* the fetched records that are submitted, online and have a spot left, in
\* fetch order, each with a price annotation; the request went to the
\* proximity endpoint if currentLocation was known, to the listing if not.
C13_ApplyShowsVisibleFetched ==
  [][ (h'.op = "fetchResolved" /\ fetch.kind = "apply")
      => /\ [i \in 1..Len(parkingSpaces') |-> WithoutPrice(parkingSpaces'[i])]
              = SelectSeq(h'.data, SubmittedOnlineWithSpots)
         /\ \A i \in 1..Len(parkingSpaces') :
              /\ Has(parkingSpaces'[i], "__price")
              /\ parkingSpaces'[i].__price.basePrice >= 0
         /\ fetch.endpoint = IF currentLocation # <<>>
                             THEN "getNearbySpaces" ELSE "getAllSpaces" ]_vars

\* "Apply" was answered with four records, of which one is pending, one
\* has no spot left and one has no isOnline: only the fourth is shown.
C13_Witness ==
  /\ h.op = "fetchResolved" /\ h.data = <<Ra, Rp, Rb, Ro>>
  /\ toasts = "Time filter applied successfully!"
  /\ WindowActive
  /\ Len(parkingSpaces) = 1
  /\ WithoutPrice(parkingSpaces[1]) = Ra
  /\ parkingSpaces[1].__price.basePrice = 5000

\* The steps in which an external call of Home has failed.
ExternalCallFailures ==
  { "fetchRejected", "fetchRejectedUnhandled", "geocodeRejected",
    "routeRejected" }

\* C14: every failure of an external call (a parking fetch from any
\* trigger, the time filter's Clear included, a geocode request, a route
\* fetch) is caught and ends in a notification shown to the user: no
\* failure is left as an unhandled rejection and none passes without a
\* notification.
C14_FailureNotified ==
  [][ h'.op \in ExternalCallFailures
        => toasts' # "" /\ h'.op # "fetchRejectedUnhandled" ]_vars

-----------------------------------------------------------------------------
(* Home: the init effect step by step (l.314-399)                          *)

PermissionStates == { "granted", "prompt", "denied" }

\* The state after construction, with the init effect at its first test
\* ('permissions' in navigator, l.317).
InitStartup ==
  /\ parkingSpaces = <<>>
  /\ filteredSpaces = <<>>
  /\ selectedSpace = <<>>
  /\ currentLocation = <<>>
  /\ loading = TRUE
  /\ searchQuery = <<>>
  /\ searchResults = <<>>
  /\ showSearchResults = FALSE
  /\ startTime = NullTime
  /\ endTime = NullTime
  /\ filters = NoFilters
  /\ fetch = [kind |-> "init"]
  /\ debouncers = 1
  /\ timers = {}
  /\ geoRequests = {}
  /\ geocodeCalls = <<>>
  /\ keystrokes = <<>>
  /\ clock = 0
  /\ toasts = ""
  /\ space = <<>>
  /\ now = 2
  /\ routeRequests = 0
  /\ routeData = "none"
  /\ sheets = InitialSheets
  /\ mounted = TRUE
  /\ popupTimeout = 0
  /\ isPopupHovered = FALSE
  /\ popupTimers = {}
  /\ splash = InitialSplash
  /\ overlay = InitialOverlay
  /\ h = Ran("mount")

\* setDefaultLocation up to the first await of loadDefaultParkingMarkers
\* (l.335-346); op names the caller.
setDefaultLocation(op) ==
  /\ currentLocation' = << "default" >>
  /\ StartLoadDefault("init")
  /\ debouncers' = debouncers + 1
  /\ toasts' = ""
  /\ h' = Ran(op)
  /\ UNCHANGED << homeVars, searchQuery, searchResults, showSearchResults,
                  timers, geoRequests, geocodeCalls, keystrokes, clock,
                  timeVars, filters, space, now, auxVars >>

\* A step of the init effect that only moves on to the next await.
InitStep(op, kind) ==
  /\ fetch' = [kind |-> kind]
  /\ toasts' = ""
  /\ h' = Ran(op)
  /\ UNCHANGED << homeVars, currentLocation, loading, searchVars, timeVars,
                  filters, space, now, auxVars >>

\* navigator has no permissions API (l.317, 324-326): getUserLocation.
PermissionsAbsent ==
  /\ fetch.kind = "init"
  /\ InitStep("permissionsAbsent", "getUserLocation")

\* navigator.permissions.query is called (l.318).
PermissionsQuery ==
  /\ fetch.kind = "init"
  /\ InitStep("permissionsQuery", "permissions")

\* The query resolves (l.319-323).
PermissionsQueryResolved(state) ==
  /\ fetch.kind = "permissions"
  /\ IF state \in { "granted", "prompt" }
     THEN InitStep("permissionGranted", "getUserLocation")
     ELSE setDefaultLocation("permissionDenied")

\* The init effect without its catch clause.
PermissionsQueryThrowsUncaught ==
  /\ fetch.kind = "permissions"
  /\ InitStep("permissionQueryThrew", "none")

\* The query throws (l.327-329).
PermissionsQueryThrows ==
  /\ fetch.kind = "permissions"
  /\ setDefaultLocation("permissionQueryThrew")

\* getUserLocation without navigator.geolocation (l.350-354).
GeolocationUnsupported ==
  /\ fetch.kind = "getUserLocation"
  /\ setDefaultLocation("geolocationUnsupported")

\* getUserLocation calls getCurrentPosition (l.355-356, 396).
GetCurrentPosition ==
  /\ fetch.kind = "getUserLocation"
  /\ InitStep("getCurrentPosition", "geolocation")

NextStartup ==
  \/ PermissionsAbsent
  \/ PermissionsQuery
  \/ \E state \in PermissionStates : PermissionsQueryResolved(state)
  \/ PermissionsQueryThrows
  \/ GeolocationUnsupported
  \/ GetCurrentPosition
  \/ \E loc \in Locations : GetUserLocation(loc)
  \/ \E out \in FetchOutcomes : LoadDefaultAllSpaces(out)
  \/ \E out \in FetchOutcomes : LoadDefaultNearbySpaces(out)
  \/ handleGoToCurrentLocation
  \/ handleSearchByCurrentLocation
  \/ \E i \in 1..MaxSpaces : handleMarkerHover(i)
  \/ handleClosePopup
  \/ \E t \in CoreStartTimes : StartTimeChange(t)
  \/ \E t \in CoreEndTimes : EndTimeChange(t)

\* The init effect runs on mount and does not wait for the user; the
\* permission query settles, getCurrentPosition calls one of its callbacks
\* (timeout: 10000, l.396) and the requests of parkingService settle.
StartupFairness ==
  /\ WF_vars(PermissionsAbsent \/ PermissionsQuery)
  /\ WF_vars(\E state \in PermissionStates : PermissionsQueryResolved(state))
  /\ WF_vars(PermissionsQueryThrows)
  /\ WF_vars(GeolocationUnsupported \/ GetCurrentPosition)
  /\ WF_vars(\E loc \in Locations : GetUserLocation(loc))
  /\ WF_vars(\E out \in FetchOutcomes : LoadDefaultAllSpaces(out))
  /\ WF_vars(\E out \in FetchOutcomes : LoadDefaultNearbySpaces(out))

SpecStartup == InitStartup /\ [][NextStartup]_vars /\ StartupFairness

\* The step that ended the location part of start-up with no real position.
NoRealPosition ==
  \/ h.op \in { "permissionDenied", "permissionQueryThrew",
                "geolocationUnsupported" }
  \/ /\ h.op = "getUserLocation"
     /\ toasts = "Could not get your location. Please enable location services."

\* C15: on every start-up path (permissions API absent, permission denied,
\* permission query throwing, geolocation unsupported, position request
\* failing or succeeding) Home eventually has loading = false with
\* currentLocation set, and where no real position was obtained
\* currentLocation is the default coordinate.
C15_StartupReachesLocation ==
  /\ <>(~loading /\ currentLocation # <<>>)
  /\ [](NoRealPosition => currentLocation = << "default" >>)

C15_Witness ==
  /\ ~loading
  /\ currentLocation = << "default" >>
  /\ h.op = "fetchRejected"

-----------------------------------------------------------------------------
(* BottomSheetController: the list sheet and the filter sheet              *)

\* A step of a sheet handler: nothing of Home outside the sheets changes.
SheetStep(op, i) ==
  /\ toasts' = ""
  /\ h' = RanAt(op, i)
  /\ UNCHANGED << homeVars, currentLocation, loading, searchVars, timeVars,
                  filters, fetch, space, now, routeVars, popupVars, mounted,
                  splash, overlay >>

\* The height of the element after a set-state call with target: a changed
\* state re-renders and motion.div animates to it (animate={{ height }},
\* l.1166, 1294); an unchanged state is no render, and the height written
\* by the drag (l.686, 753) stays.
Animate(sheet, target) ==
  [ sheet EXCEPT !.height = target,
                 !.el = IF target # sheet.height THEN target ELSE sheet.el ]

Clamp(v, lo, hi) == Min(Max(v, lo), hi)

\* onDragStart / onFilterDragStart (l.672-679, 739-746).  The pointer goes
\* down on the grab handle (l.1174, 1302), the top edge of a sheet that is
\* fixed to the bottom of the window: e.clientY is the window's height
\* less the sheet's.
DragStart(sheet) ==
  [ sheet EXCEPT !.dragging = TRUE, !.startY = InnerHeight - sheet.el,
                 !.initial = sheet.el ]

\* onDragMove / onFilterDragMove (l.681-687, 748-754).
DragMove(sheet, y, lo, hi) ==
  [ sheet EXCEPT !.el = Clamp(sheet.initial + (sheet.startY - y), lo, hi) ]

\* The list sheet's snap target (l.693-696).
ListSnapTarget(finalHeight) ==
  IF finalHeight > MID_HEIGHT THEN MAX_HEIGHT
  ELSE IF finalHeight > MIN_HEIGHT /\ finalHeight <= MID_HEIGHT
       THEN MIN_HEIGHT
       ELSE MIN_HEIGHT

\* The filter sheet's snap target (l.760-762).
FilterSnapTarget(finalHeight) ==
  IF finalHeight > MID_FILTER_HEIGHT THEN MAX_FILTER_HEIGHT
  ELSE MIN_FILTER_HEIGHT

\* The filter sheet's overlay (fixed inset-0 z-50, l.1160) covers the
\* toolbar and the list sheet while it is shown.
ListReachable == mounted /\ ~sheets.filter.show

onDragStart ==
  /\ ListReachable /\ sheets.list.show /\ ~sheets.list.dragging
  /\ sheets' = [sheets EXCEPT !.list = DragStart(@)]
  /\ SheetStep("onDragStart", sheets.list.el)

onDragMove(y) ==
  /\ sheets.list.dragging /\ sheets.list.show
  /\ sheets' = [sheets EXCEPT !.list = DragMove(@, y, MIN_HEIGHT, MAX_HEIGHT)]
  /\ SheetStep("onDragMove", sheets'.list.el)

\* onDragEnd (l.689-697); the history keeps finalHeight.
onDragEnd ==
  /\ sheets.list.dragging /\ sheets.list.show
  /\ sheets' = [sheets EXCEPT
                  !.list = [ Animate(@, ListSnapTarget(@.el))
                               EXCEPT !.dragging = FALSE ]]
  /\ SheetStep("onDragEnd", sheets.list.el)

\* The toolbar's list button (l.874-881) and the sheet's close button
\* (l.1315): openListSheet(MIN_FILTER_HEIGHT) (l.712-717) renders a new
\* element at the clamped height; closing removes it and the effect
\* (l.664-667) sets the height to 0.
toggleListSheet ==
  /\ ListReachable /\ ~sheets.list.dragging
  /\ sheets' = [sheets EXCEPT
       !.list = IF @.show
                THEN [ @ EXCEPT !.show = FALSE, !.height = 0, !.el = 0,
                                !.listeners = ListenerEffect(@, TRUE, FALSE) ]
                ELSE [ @ EXCEPT
                         !.show = TRUE,
                         !.listeners = ListenerEffect(@, FALSE, TRUE),
                         !.height = Clamp(MIN_FILTER_HEIGHT, MIN_HEIGHT, MAX_HEIGHT),
                         !.el = Clamp(MIN_FILTER_HEIGHT, MIN_HEIGHT, MAX_HEIGHT) ]]
  /\ SheetStep("toggleListSheet", 0)

\* The sheet's second header button (l.1320-1322): setSheetHeight(MIN_HEIGHT).
collapseListSheet ==
  /\ ListReachable /\ sheets.list.show /\ ~sheets.list.dragging
  /\ sheets' = [sheets EXCEPT !.list = Animate(@, MIN_HEIGHT)]
  /\ SheetStep("collapseListSheet", 0)

\* The Filters button (l.860-861) and the effect (l.731-737).
openFilterSheet ==
  /\ ListReachable /\ ~sheets.list.dragging
  /\ sheets' = [sheets EXCEPT
       !.filter = [ @ EXCEPT !.show = TRUE, !.height = MIN_FILTER_HEIGHT,
                             !.el = MIN_FILTER_HEIGHT,
                             !.listeners = ListenerEffect(@, FALSE, TRUE) ]]
  /\ SheetStep("openFilterSheet", 0)

\* The overlay and the close buttons of the filter sheet (l.1161, 1189,
\* 1270) and the effect (l.731-735).
closeFilterSheet ==
  /\ mounted /\ sheets.filter.show /\ ~sheets.filter.dragging
  /\ sheets' = [sheets EXCEPT
       !.filter = [ @ EXCEPT !.show = FALSE, !.height = 0, !.el = 0,
                             !.listeners = ListenerEffect(@, TRUE, FALSE) ]]
  /\ SheetStep("closeFilterSheet", 0)

onFilterDragStart ==
  /\ mounted /\ sheets.filter.show /\ ~sheets.filter.dragging
  /\ sheets' = [sheets EXCEPT !.filter = DragStart(@)]
  /\ SheetStep("onFilterDragStart", sheets.filter.el)

onFilterDragMove(y) ==
  /\ sheets.filter.dragging /\ sheets.filter.show
  /\ sheets' = [sheets EXCEPT
       !.filter = DragMove(@, y, MIN_FILTER_HEIGHT, MAX_FILTER_HEIGHT)]
  /\ SheetStep("onFilterDragMove", sheets'.filter.el)

\* onFilterDragEnd (l.756-763); the history keeps finalHeight.
onFilterDragEnd ==
  /\ sheets.filter.dragging /\ sheets.filter.show
  /\ sheets' = [sheets EXCEPT
                  !.filter = [ Animate(@, FilterSnapTarget(@.el))
                                 EXCEPT !.dragging = FALSE ]]
  /\ SheetStep("onFilterDragEnd", sheets.filter.el)

NextSheets ==
  \/ onDragStart
  \/ \E y \in PointerYs : onDragMove(y)
  \/ onDragEnd
  \/ toggleListSheet
  \/ collapseListSheet
  \/ openFilterSheet
  \/ closeFilterSheet
  \/ onFilterDragStart
  \/ \E y \in PointerYs : onFilterDragMove(y)
  \/ onFilterDragEnd

SpecSheets == Init /\ [][NextSheets]_vars

\* C16: a sheet released from a drag above its midpoint ends with its
\* height at MAX, and released at or below the midpoint ends with its
\* height at MIN, for the list sheet and for the filter sheet, also when
\* the height state equals the snap target before the release.
C16_ReleaseSnaps ==
  [][ /\ h'.op = "onDragEnd"
        => sheets'.list.el = IF h'.idx > MID_HEIGHT THEN MAX_HEIGHT
                             ELSE MIN_HEIGHT
      /\ h'.op = "onFilterDragEnd"
        => sheets'.filter.el = IF h'.idx > MID_FILTER_HEIGHT
                               THEN MAX_FILTER_HEIGHT
                               ELSE MIN_FILTER_HEIGHT ]_vars

-----------------------------------------------------------------------------
(* PriceAnnotator: computePriceMeta on raw records of the service         *)

\* Price fields as the service may send them: missing, negative, zero,
\* positive, numeric and non-numeric strings, null with a fallback field.
RawPriceFields ==
  { EmptyObject,
    [ pricePerHour |-> Num(-100) ],
    [ pricePerHour |-> Num(0) ],
    [ pricePerHour |-> Num(100) ],
    [ pricePerHour |-> Str("abc") ],
    [ pricePerHour |-> Str("80") ],
    [ pricePerHour |-> Str("-80") ],
    [ priceParking |-> Null, price |-> Num(100) ],
    [ priceParking |-> Num(100), price |-> Num(-100) ] }

\* Discount fields: missing, negative, in range, over 100, not finite,
\* strings.
RawDiscountFields ==
  { EmptyObject,
    [ discount |-> Num(-5) ],
    [ discount |-> Num(25) ],
    [ discount |-> Num(100) ],
    [ discount |-> Num(150) ],
    [ discount |-> NaN ],
    [ discount |-> Infinity ],
    [ discount |-> NegInfinity ],
    [ discount |-> Str("abc") ],
    [ discount |-> Str("25") ] }

RawSpaces ==
  { Spread(Spread(Ra, pf), df) : pf \in RawPriceFields, df \in RawDiscountFields }

RawFetchOutcomes ==
  { Resolved(<< r >>) : r \in RawSpaces } \cup { Resolved(<<>>), Rejected }

NextPrice ==
  \/ \E loc \in CoreLocations : GetUserLocation(loc)
  \/ \E out \in RawFetchOutcomes : LoadDefaultAllSpaces(out)
  \/ \E out \in RawFetchOutcomes : LoadDefaultNearbySpaces(out)
  \/ handleGoToCurrentLocation

SpecPrice == Init /\ [][NextPrice]_vars

\* C17: for every raw record (negative, zero, non-numeric or missing
\* price; negative, over-100 or non-finite discount) the price annotation
\* has 0 <= discountPercent <= 100 and discountedPrice <= basePrice.
C17_PriceMetaBounded ==
  \A i \in 1..Len(parkingSpaces) :
    LET meta == parkingSpaces[i].__price
    IN /\ 0 <= meta.discountPercent /\ meta.discountPercent <= 100
       /\ meta.discountedPrice <= meta.basePrice

-----------------------------------------------------------------------------
(* ApprovalFilter: onlyApproved on what the service answers                *)

ApprovalStatusFields ==
  { EmptyObject, [ status |-> "" ], [ status |-> "submitted" ],
    [ status |-> "Submitted" ], [ status |-> "SUBMITTED" ],
    [ status |-> "pending" ], [ status |-> "rejected" ] }

ApprovalOnlineFields ==
  { EmptyObject, [ isOnline |-> TRUE ], [ isOnline |-> FALSE ] }

\* The records with identifier id.
ApprovalRecords(id) ==
  { Spread(Spread([ _id |-> id, availableSpots |-> Num(1) ], sf), of) :
      sf \in ApprovalStatusFields, of \in ApprovalOnlineFields }

\* What a fetch resolves with: no array, or an array of up to two records.
ApprovalAnswers ==
  NonArrays \cup { <<>> }
    \cup { << r >> : r \in ApprovalRecords("a") }
    \cup { << r, q >> : r \in ApprovalRecords("a"), q \in ApprovalRecords("b") }
    \cup { << q, r >> : r \in ApprovalRecords("a"), q \in ApprovalRecords("b") }

ApprovalFetchOutcomes == { Resolved(a) : a \in ApprovalAnswers } \cup { Rejected }

NextApproval ==
  \/ \E loc \in CoreLocations : GetUserLocation(loc)
  \/ \E out \in ApprovalFetchOutcomes : LoadDefaultAllSpaces(out)
  \/ \E out \in ApprovalFetchOutcomes : LoadDefaultNearbySpaces(out)
  \/ handleGoToCurrentLocation

SpecApproval == Init /\ [][NextApproval]_vars

\* A record whose status is "submitted" in any letter case and whose
\* isOnline is present and true.
SubmittedAndOnline(s) ==
  /\ Has(s, "status")
  /\ s.status \in { "submitted", "Submitted", "SUBMITTED" }
  /\ Has(s, "isOnline") /\ s.isOnline

\* The records of an answer that are submitted and online, in the order of
\* the answer; nothing for an answer that is not an array.
RECURSIVE KeptInOrder(_)
KeptInOrder(answer) ==
  IF answer \in NonArrays \/ answer = <<>> THEN <<>>
  ELSE IF SubmittedAndOnline(Head(answer))
       THEN << Head(answer) >> \o KeptInOrder(Tail(answer))
       ELSE KeptInOrder(Tail(answer))

\* C18: onlyApproved returns the empty list for an empty, null or
\* non-array input; otherwise it keeps exactly the records whose
\* lower-cased status is "submitted" and whose isOnline is truthy (an
\* absent isOnline excludes the record), in their order; applying it to
\* its own result changes nothing.
C18_OnlyApprovedKeeps ==
  h.op = "fetchResolved"
    => /\ [i \in 1..Len(parkingSpaces) |-> WithoutPrice(parkingSpaces[i])]
            = KeptInOrder(h.data)
       /\ onlyApproved(h.data) = KeptInOrder(h.data)
       /\ onlyApproved(onlyApproved(h.data)) = onlyApproved(h.data)

\* An answer of two records: the first has no isOnline and is dropped, the
\* second is SUBMITTED and online and is kept.
C18_Witness ==
  /\ h.op = "fetchResolved"
  /\ h.data \notin NonArrays /\ Len(h.data) = 2
  /\ ~Has(h.data[1], "isOnline")
  /\ Has(h.data[1], "status") /\ h.data[1].status = "submitted"
  /\ Len(parkingSpaces) = 1
  /\ Has(parkingSpaces[1], "status") /\ parkingSpaces[1].status = "SUBMITTED"

-----------------------------------------------------------------------------
(* RealtimeReconciler: the selected space against the collection           *)

\* Upsert payloads for the spaces a and b: a numeric availableSpots, a count
\* under "available" only, and a count under "available" next to an
\* availableSpots that is not a number.
SelectedEvents ==
  { [ _id |-> "a", availableSpots |-> Num(3) ],
    [ _id |-> "a", available |-> Num(4) ],
    [ _id |-> "a", available |-> Num(4), availableSpots |-> Str("many") ],
    [ _id |-> "b", availableSpots |-> Num(1) ],
    [ _id |-> "b", availableSpots |-> Str("many") ] }

NextSelected ==
  \/ \E loc \in CoreLocations : GetUserLocation(loc)
  \/ \E out \in FetchOutcomes : LoadDefaultAllSpaces(out)
  \/ \E out \in FetchOutcomes : LoadDefaultNearbySpaces(out)
  \/ \E i \in 1..MaxSpaces : handleMarkerHover(i)
  \/ handleClosePopup
  \/ \E data \in SelectedEvents : HandleParkingUpdate(data)

SpecSelected == Init /\ [][NextSelected]_vars

\* C19: after an upsert event for the identifier of the selected space,
\* the selected space has the same field values as the entry with that
\* identifier in the full collection, availableSpots included.  Stated
\* for a selection that equals its entry before the event.
C19_SelectedFollowsCollection ==
  [][ ( /\ h'.op = "handleParkingUpdate"
        /\ h'.sel /\ h'.idx > 0
        /\ selectedSpace[1] = parkingSpaces[h'.idx]
        /\ selectedSpace' # <<>> )
      => selectedSpace'[1] = parkingSpaces'[h'.idx] ]_vars

-----------------------------------------------------------------------------
(* Timers: the search debounce, the popup-close timer and Splash's two     *)
(* timers, over unmount and dependency change                              *)

MaxPopupTimers == 2       \* timer ids handed out by setTimeout

\* The id setTimeout returns: one that is neither pending nor held.
FreshTimerIds(pending) ==
  { id \in 1..MaxPopupTimers : id \notin pending /\ id # popupTimeout }

\* What a step of Home around the popup leaves alone.
PopupStep(op) ==
  /\ toasts' = ""
  /\ h' = Ran(op)
  /\ UNCHANGED << parkingSpaces, filteredSpaces, currentLocation, loading,
                  searchVars, timeVars, filters, fetch, space, now, routeVars,
                  viewVars, overlay >>

\* debouncedClosePopup (l.299-305) as the marker's onMouseLeave (l.941).
\* setPopupTimeout re-runs the cleanup effect (l.307-311) with the former
\* id, which the call has cleared already.
debouncedClosePopup ==
  /\ mounted /\ ~loading /\ Len(filteredSpaces) > 0
  /\ IF ~isPopupHovered
     THEN \E id \in FreshTimerIds(ClearTimeout(popupTimeout)) :
            /\ popupTimers' = ClearTimeout(popupTimeout) \cup { id }
            /\ popupTimeout' = id
     ELSE /\ popupTimers' = ClearTimeout(popupTimeout)
          /\ UNCHANGED popupTimeout
  /\ PopupStep("debouncedClosePopup")
  /\ UNCHANGED << selectedSpace, isPopupHovered >>

\* handlePopupMouseEnter (l.499-502).
handlePopupMouseEnter ==
  /\ mounted /\ selectedSpace # <<>> /\ ~isPopupHovered
  /\ isPopupHovered' = TRUE
  /\ popupTimers' = ClearTimeout(popupTimeout)
  /\ PopupStep("handlePopupMouseEnter")
  /\ UNCHANGED << selectedSpace, popupTimeout >>

\* handlePopupMouseLeave (l.503-506): debouncedClosePopup is the callback
\* of the render in which isPopupHovered is still true, so it clears the
\* timer and sets none.
handlePopupMouseLeave ==
  /\ mounted /\ selectedSpace # <<>> /\ isPopupHovered
  /\ isPopupHovered' = FALSE
  /\ popupTimers' = ClearTimeout(popupTimeout)
  /\ PopupStep("handlePopupMouseLeave")
  /\ UNCHANGED << selectedSpace, popupTimeout >>

\* The popup-close timer fires (l.302): setSelectedSpace(null).
PopupTimerFires(id) ==
  /\ id \in popupTimers
  /\ popupTimers' = popupTimers \ { id }
  /\ selectedSpace' = <<>>
  /\ PopupStep("popupTimerFired")
  /\ UNCHANGED << popupTimeout, isPopupHovered >>

\* Home unmounts: the cleanup of the popup effect runs (l.307-311) and the
\* cleanups of the sheets' listener effects (l.705-709, 771-775); the
\* debounce instances have no cleanup (l.34-40, 611).
unmount ==
  /\ mounted
  /\ mounted' = FALSE
  /\ popupTimers' = ClearTimeout(popupTimeout)
  /\ sheets' = [ k \in DOMAIN sheets |->
                  [ sheets[k] EXCEPT
                      !.listeners = ListenerEffect(@, sheets[k].show, FALSE) ] ]
  /\ toasts' = ""
  /\ h' = Ran("unmount")
  /\ UNCHANGED << homeVars, currentLocation, loading, searchVars, timeVars,
                  filters, fetch, space, now, routeVars, popupTimeout,
                  isPopupHovered, splash, overlay >>

\* A step of Splash: nothing of Home changes.
SplashStep(op) ==
  /\ toasts' = ""
  /\ h' = Ran(op)
  /\ UNCHANGED << homeVars, currentLocation, loading, searchVars, timeVars,
                  filters, fetch, space, now, routeVars, popupVars, sheets,
                  mounted, overlay >>

\* Splash's outer timer fires (Splash.tsx l.14-19): setHidden(true) and
\* an inner timer is set.
SplashTimerFires ==
  /\ splash.timer
  /\ splash' = [splash EXCEPT !.timer = FALSE, !.hidden = TRUE,
                              !.inner = @ + 1]
  /\ SplashStep("splashHide")

\* One of Splash's inner timers fires (Splash.tsx l.16-18): onFinish().
SplashInnerTimerFires ==
  /\ splash.inner > 0
  /\ splash' = [splash EXCEPT !.inner = @ - 1, !.finished = @ + 1]
  /\ SplashStep("splashFinish")

\* A re-render changes duration or onFinish: the cleanup clears the outer
\* timer and the effect sets a new one (Splash.tsx l.13-22), whether the
\* splash is visible or has hidden.
SplashPropsChange ==
  /\ splash.mounted
  /\ splash.hidden => splash.inner + splash.finished < MaxSplashFinishes
  /\ splash' = [splash EXCEPT !.timer = TRUE]
  /\ SplashStep("splashPropsChange")

\* Splash unmounts: the cleanup clears the outer timer only (Splash.tsx
\* l.21).
SplashUnmount ==
  /\ splash.mounted
  /\ splash' = [splash EXCEPT !.mounted = FALSE, !.timer = FALSE]
  /\ SplashStep("splashUnmount")

NextTimers ==
  \/ \E loc \in CoreLocations : GetUserLocation(loc)
  \/ \E out \in SearchFetchOutcomes : LoadDefaultAllSpaces(out)
  \/ \E out \in SearchFetchOutcomes : LoadDefaultNearbySpaces(out)
  \/ Tick
  \/ mounted /\ \E query \in Queries : handleSearchInputChange(query)
  \/ \E t \in timers : DebounceTimerFires(t)
  \/ mounted /\ \E i \in 1..MaxSpaces : handleMarkerHover(i)
  \/ debouncedClosePopup
  \/ handlePopupMouseEnter
  \/ handlePopupMouseLeave
  \/ \E id \in popupTimers : PopupTimerFires(id)
  \/ unmount
  \/ SplashTimerFires
  \/ SplashInnerTimerFires
  \/ SplashPropsChange
  \/ SplashUnmount

SpecTimers == Init /\ [][NextTimers]_vars

\* C20: every timer is cleared on unmount: after Home (or Splash) has
\* unmounted, no callback of a timer scheduled before runs, be it the
\* search debounce timer, the popup-close timer or Splash's hide and
\* onFinish timers.
C20_TimersCleared ==
  [][ /\ h'.op \in { "searchLocations", "popupTimerFired" } => mounted
      /\ h'.op \in { "splashHide", "splashFinish" } => splash.mounted ]_vars

-----------------------------------------------------------------------------
(* TimeFilterController: the end time against a changed start time         *)

\* C21 as claimed: after every change of the start time, endTime is empty
\* or strictly later than startTime.
C21_EndEmptyOrAfterStart ==
  h.op = "startTimeChange"
    => \/ endTime <= 0
       \/ startTime > 0 /\ endTime > startTime

\* C21: after every change of the start time to a non-empty value, an end
\* time chosen before that is <= the new start time has been cleared:
\* endTime is empty or strictly later than startTime.
C21_EndEmptyOrAfterChosenStart ==
  (h.op = "startTimeChange" /\ startTime > 0)
    => (endTime <= 0 \/ endTime > startTime)

\* The start time was moved onto a chosen end time, which was cleared.
C21_Witness ==
  /\ h.op = "startTimeChange"
  /\ startTime = 3
  /\ endTime = EmptyTime

-----------------------------------------------------------------------------
(* BottomSheetController: the window listeners of the sheets               *)

\* C22: while Home is mounted, each bottom sheet has exactly one set of
\* pointermove / pointerup / pointercancel listeners on window while its
\* show flag is true and none while the sheet is closed, after any
\* sequence of open and close actions.
C22_ListenersWhileShown ==
  mounted =>
    \A k \in DOMAIN sheets :
      sheets[k].listeners = IF sheets[k].show THEN 1 ELSE 0

\* The list sheet was closed and opened again while the filter sheet,
\* opened and closed before, is closed.
C22_Witness ==
  /\ h.op = "toggleListSheet"
  /\ sheets.list.show /\ sheets.list.listeners = 1
  /\ ~sheets.filter.show /\ sheets.filter.listeners = 0
  /\ sheets.list.height = Clamp(MIN_FILTER_HEIGHT, MIN_HEIGHT, MAX_HEIGHT)

-----------------------------------------------------------------------------
(* ParkingDetails: what a realtime event changes                           *)

\* The identifier an event carries: parkingId, else _id, else id.
EventIdentifier(data) ==
  IF Has(data, "parkingId") THEN data.parkingId
  ELSE IF Has(data, "_id") THEN data._id
  ELSE IF Has(data, "id") THEN data.id
  ELSE ""

\* The spot count an event carries: a numeric availableSpots, else
\* available, else availableSpots.
EventSpotCount(data) ==
  IF Has(data, "availableSpots") /\ TypeOf(data.availableSpots) = "number"
  THEN data.availableSpots
  ELSE IF Has(data, "available") THEN data.available
  ELSE IF Has(data, "availableSpots") THEN data.availableSpots
  ELSE Undefined

\* C23: an event whose identifier equals the space's _id and whose spot
\* count is numeric changes only availableSpots of the detail screen's
\* space, to that count; every other event leaves the space unchanged.
C23_EventChangesOnlySpots ==
  [][ h'.op = "detailsParkingUpdate" =>
        IF /\ EventIdentifier(h'.data) = space[1]._id
           /\ TypeOf(EventSpotCount(h'.data)) = "number"
        THEN /\ Len(space') = 1
             /\ DOMAIN space'[1] = DOMAIN space[1] \cup { "availableSpots" }
             /\ space'[1].availableSpots = EventSpotCount(h'.data)
             /\ \A f \in DOMAIN space[1] \ { "availableSpots" } :
                  space'[1][f] = space[1][f]
        ELSE space' = space ]_vars

\* An event for the shown space with an online change and a spot count
\* has been handled: the count is taken, isOnline and the price are not.
C23_Witness ==
  /\ h.op = "detailsParkingUpdate"
  /\ Has(h.data, "isOnline") /\ ~h.data.isOnline
  /\ space # <<>> /\ space[1]._id = "a"
  /\ space[1].availableSpots = Num(1)
  /\ space[1].isOnline
  /\ space[1].pricePerHour = Num(50)

-----------------------------------------------------------------------------
(* RealtimeReconciler: one entry per identifier                            *)

\* C24: no two entries of the full collection stem from the same
\* identifier (carried in parkingId, _id or id): an event for an
\* identifier that an earlier event inserted updates that entry instead
\* of adding another one.
C24_IdentifiersUnique ==
  \A i, j \in 1..Len(parkingSpaces) :
    (i # j /\ EventIdentifier(parkingSpaces[i]) # "")
      => EventIdentifier(parkingSpaces[i]) # EventIdentifier(parkingSpaces[j])

-----------------------------------------------------------------------------
(* SpaceCollection: the selected space is an entry of the collection       *)

\* C25: whenever a space is selected and no fetch is in flight, the full
\* collection contains an entry with the selected space's identifier.
C25_SelectedInCollection ==
  (selectedSpace # <<>> /\ fetch = NoFetch /\ ~loading)
    => \E i \in 1..Len(parkingSpaces) :
         SidOf(parkingSpaces[i]) = SidOf(selectedSpace[1])

-----------------------------------------------------------------------------
(* PriceAnnotator: the cached price of the entries                         *)

\* C26: for every entry of the full collection, the cached __price equals
\* computePriceMeta of the entry's current price and discount fields.
C26_CachedPriceCurrent ==
  \A i \in 1..Len(parkingSpaces) :
    /\ Has(parkingSpaces[i], "__price")
    /\ parkingSpaces[i].__price = computePriceMeta(parkingSpaces[i])

-----------------------------------------------------------------------------
(* BottomSheetController: the heights of the open list sheet               *)

\* C27: whenever the list sheet is open and no drag is in progress, its
\* height state is one of the snap heights MIN_HEIGHT and MAX_HEIGHT.
C27_ListAtSnapHeight ==
  (mounted /\ sheets.list.show /\ ~sheets.list.dragging)
    => sheets.list.height \in { MIN_HEIGHT, MAX_HEIGHT }

-----------------------------------------------------------------------------
(* Popup: the close timer after the pointer has left the popup             *)

NextPopup ==
  \/ \E loc \in CoreLocations : GetUserLocation(loc)
  \/ \E out \in FetchOutcomes : LoadDefaultAllSpaces(out)
  \/ \E out \in FetchOutcomes : LoadDefaultNearbySpaces(out)
  \/ \E i \in 1..MaxSpaces : handleMarkerHover(i)
  \/ \E i \in 1..MaxSpaces : handleMarkerClick(i)
  \/ FetchRouteResolved
  \/ FetchRouteRejected
  \/ debouncedClosePopup
  \/ handlePopupMouseEnter
  \/ handlePopupMouseLeave
  \/ handleClosePopup
  \/ \E id \in popupTimers : PopupTimerFires(id)

\* A pending timer fires: the browser runs the callback of every timer
\* that is not cleared.  The user's steps are under no obligation.
PopupFairness ==
  \A id \in 1..MaxPopupTimers : WF_vars(PopupTimerFires(id))

SpecPopup == Init /\ [][NextPopup]_vars /\ PopupFairness

\* The pointer is on a marker or on the popup again: it has entered,
\* clicked or left a marker, or entered the popup.
PointerBack ==
  h.op \in { "handleMarkerHover", "handleMarkerClick", "debouncedClosePopup",
             "handlePopupMouseEnter" }

\* C28: after the pointer has left the popup of a selected space, the
\* selection is eventually cleared, unless the pointer enters a marker or
\* the popup again.
C28_LeaveEventuallyCloses ==
  (h.op = "handlePopupMouseLeave") ~> (selectedSpace = <<>> \/ PointerBack)

-----------------------------------------------------------------------------
(* Splash: the calls of onFinish                                           *)

\* Splash over the start-up of the screen behind it.
NextSplash ==
  \/ \E loc \in Locations : GetUserLocation(loc)
  \/ \E out \in FetchOutcomes : LoadDefaultAllSpaces(out)
  \/ \E out \in FetchOutcomes : LoadDefaultNearbySpaces(out)
  \/ SplashTimerFires
  \/ SplashInnerTimerFires
  \/ SplashPropsChange
  \/ SplashUnmount

SpecSplash == Init /\ [][NextSplash]_vars

\* C29: for one mount of Splash, onFinish is called at most once.
C29_FinishAtMostOnce == splash.finished <= 1

-----------------------------------------------------------------------------
(* SearchOverlay (SearchOverlayProps.tsx): results over open and close     *)

MaxOverlayRequests == 2   \* calls of searchLocation per behaviour

\* Texts typed into the overlay's input (l.68).
OverlayQueries == { "", "delhi", "mumbai" }

\* What searchLocation resolves with: no place or one.
OverlayAnswers == { <<>>, << "place" >> }

\* A step of SearchOverlay: nothing of Home, ParkingDetails or Splash
\* changes.
OverlayStep(op) ==
  /\ toasts' = ""
  /\ h' = Ran(op)
  /\ UNCHANGED << homeVars, currentLocation, loading, searchVars, timeVars,
                  filters, fetch, space, now, routeVars, popupVars,
                  viewVars >>

\* updateResults (l.19-22): the local list and the parent's copy.
updateResults(o, r) == [ o EXCEPT !.results = r, !.parentResults = r ]

\* The parent opens the overlay: the effect (l.24-29) does nothing.
OverlayOpen ==
  /\ ~overlay.isOpen
  /\ overlay' = [ overlay EXCEPT !.isOpen = TRUE ]
  /\ OverlayStep("overlayOpen")

\* onClose (l.58) makes the parent pass isOpen false; the effect
\* (l.24-29) empties the query and the results.
OverlayClose ==
  /\ overlay.isOpen
  /\ overlay' = [ updateResults(overlay, <<>>) EXCEPT !.isOpen = FALSE,
                                                      !.query = "" ]
  /\ OverlayStep("overlayClose")

\* The input's onChange (l.68).
OverlaySetQuery(q) ==
  /\ overlay.isOpen
  /\ overlay' = [ overlay EXCEPT !.query = q ]
  /\ OverlayStep("overlaySetQuery")

\* handleSearch up to its await (l.31-34), from the Enter key (l.69) or
\* from the Search button, which is disabled while loading or for a blank
\* query (l.73-74).
handleSearch(enter) ==
  /\ overlay.isOpen
  /\ enter \/ (~overlay.loading /\ overlay.query # "")
  /\ overlay.started < MaxOverlayRequests
  /\ overlay' = [ overlay EXCEPT
                    !.loading = TRUE,
                    !.started = @ + 1,
                    !.requests = @ \cup { [ n |-> overlay.started + 1,
                                            query |-> overlay.query ] } ]
  /\ OverlayStep("handleSearch")

\* searchLocation resolves (l.34-37): updateResults(r), then the finally.
SearchLocationResolved(req, r) ==
  /\ req \in overlay.requests
  /\ overlay' = [ updateResults(overlay, r) EXCEPT
                    !.loading = FALSE,
                    !.requests = @ \ { req } ]
  /\ OverlayStep("searchLocationResolved")

\* searchLocation rejects: only the finally runs (l.36-38).
SearchLocationRejected(req) ==
  /\ req \in overlay.requests
  /\ overlay' = [ overlay EXCEPT !.loading = FALSE,
                                 !.requests = @ \ { req } ]
  /\ OverlayStep("searchLocationRejected")

NextOverlay ==
  \/ OverlayOpen
  \/ OverlayClose
  \/ \E q \in OverlayQueries : OverlaySetQuery(q)
  \/ \E enter \in BOOLEAN : handleSearch(enter)
  \/ \E req \in overlay.requests, r \in OverlayAnswers :
       SearchLocationResolved(req, r)
  \/ \E req \in overlay.requests : SearchLocationRejected(req)

SpecOverlay == Init /\ [][NextOverlay]_vars

\* C30: whenever the SearchOverlay is closed, its result list is empty,
\* the local one and the one passed to the parent, also when a
\* searchLocation request started before the close is answered after it.
C30_ClosedOverlayEmpty ==
  ~overlay.isOpen
    => (overlay.results = <<>> /\ overlay.parentResults = <<>>)

====
